---------------------------- MODULE Spec2Model ----------------------------
(***************************************************************************)
(* A model of positional-zod: the escape codec (utils/escape.ts), the      *)
(* schema analyzer (schema-analyzer.ts), the row parser (parser.ts) and    *)
(* the orchestrator PositionalZod (positional-zod.ts).                     *)
(*                                                                         *)
(* A JavaScript string is modelled as a sequence of UTF-16 code units,     *)
(* each unit a one-character TLA+ string.  "H" and "L" stand for the high  *)
(* and the low half of a surrogate pair (for instance U+D83D, U+DE00).     *)
(* Indices are 0-based as in the source; At(s, i) is s[i].                 *)
(***************************************************************************)
EXTENDS Integers, Sequences, FiniteSets, TLC

VARIABLES
  \* ---- escape codec (one call each of escape / unescape / splitWithEscape)
  str,            \* the value handed to escape(), or the row handed to split
  delimiter,      \* config.delimiter
  escapeChar,     \* config.escapeChar
  segments,       \* the list of segments that is escaped and joined
  escaped,        \* result of escape(str, ...)
  unescaped,      \* result of unescape(escaped, ...)
  joined,         \* the escaped segments joined with the delimiter
  splitResult,    \* result of splitWithEscape(joined, ...)
  codecPc,
  \* ---- schema analyzer (one call of analyzeSchema)
  schema,         \* the Zod object schema handed to analyzeSchema
  positions,      \* the PositionInfo[] it returned
  schemaError,    \* the SchemaError it threw
  anPc,           \* "start", then "returned" or "thrown"
  \* ---- row parser (one call of parsePositionalOutput on schema, positions)
  rawOutput,      \* the raw text handed to parsePositionalOutput
  parserConfig,   \* ParserConfig: delimiter, escapeChar, subDelimiter
  mode,           \* "object" (Single) or "array" (Multi)
  parseResult,    \* what the call returned or threw
  validatorCalls, \* the row indices validateWithZod was called with, in order
  parsePc,
  decodeLog,      \* the decode calls made on positions so far, with results
  \* ---- orchestrator (one PositionalZod instance, concurrent invocations)
  config,         \* this.config: providers, defaultProvider, fallbackProviders
  providers,      \* this.providers: provider identifier -> instance (0: none)
  created,        \* provider identifier -> instances createProvider has built
  inv,            \* the invocations of complete / completeWithProvider
  \* ---- provider (one provider instance, concurrent complete calls)
  providerName,   \* this.name: which provider class the instance is of
  sdkInstalled,   \* whether the dynamic import of the SDK resolves
  client,         \* this.client: the SDK client (0: unset)
  constructed,    \* the number of SDK clients constructed so far
  getClientCalls, \* the calls of getClient: position and result
  \* ---- prompt builder (one call of buildSystemPrompt)
  promptPositions, \* the PositionInfo[] handed to buildSystemPrompt
  promptConfig,   \* PromptConfig: delimiter, subDelimiter, mode
  exampleRows,    \* the rows under EXAMPLE OUTPUT in the prompt it returned
  promptPc

codecVars == <<str, delimiter, escapeChar, segments, escaped, unescaped,
               joined, splitResult, codecPc>>

anVars == <<schema, positions, schemaError, anPc>>

parseVars == <<rawOutput, parserConfig, mode, parseResult, validatorCalls,
               parsePc, decodeLog>>

orchVars == <<config, providers, created, inv>>

clientVars == <<providerName, sdkInstalled, client, constructed, getClientCalls>>

promptVars == <<promptPositions, promptConfig, exampleRows, promptPc>>

vars == <<codecVars, anVars, parseVars, orchVars, clientVars, promptVars>>

\* A value that is no string, list or record of the program.
NoVal == <<"<none>">>

----------------------------------------------------------------------------
\* Bounds of the model.
MaxStrLen == 4
MaxSegs == 2
MaxSegLen == 2
\* Schema nodes below the root object.
MaxNodes == 3
\* Lines of a raw output.
MaxLines == 3
\* Concurrent invocations of complete / completeWithProvider.
NumInvocations == 2

----------------------------------------------------------------------------
\* JavaScript string primitives.

At(s, i) == s[i + 1]

Min(a, b) == IF a < b THEN a ELSE b

\* String.prototype.substring(from, to) for 0 <= from <= to.
substring(s, from, to) == SubSeq(s, from + 1, Min(to, Len(s)))

IsHighSurrogate(u) == u = "H"
IsLowSurrogate(u) == u = "L"

\* The string iterator behind `for (const char of str)`: the code point that
\* starts at unit i, a surrogate pair taken as one two-unit character.
CodePointAt(s, i) ==
  IF IsHighSurrogate(At(s, i)) /\ i + 1 < Len(s) /\ IsLowSurrogate(At(s, i + 1))
  THEN <<At(s, i), At(s, i + 1)>>
  ELSE <<At(s, i)>>

RECURSIVE JoinWith(_, _)
\* Array.prototype.join(sep)
JoinWith(list, sep) ==
  IF list = <<>> THEN <<>>
  ELSE IF Len(list) = 1 THEN list[1]
  ELSE list[1] \o sep \o JoinWith(Tail(list), sep)

----------------------------------------------------------------------------
\* utils/escape.ts

RECURSIVE splitLoopEscapingAny(_, _, _, _, _, _)
\* A split in which the escape character escapes whatever follows it.
splitLoopEscapingAny(s, d, e, i, current, result) ==
  IF ~(i < Len(s)) THEN Append(result, current)
  ELSE IF <<At(s, i)>> = e /\ i + 1 < Len(s)
       THEN splitLoopEscapingAny(s, d, e, i + 2,
                                 Append(current, At(s, i + 1)), result)
  ELSE IF substring(s, i, i + Len(d)) = d
       THEN splitLoopEscapingAny(s, d, e, i + Len(d), <<>>,
                                 Append(result, current))
  ELSE splitLoopEscapingAny(s, d, e, i + 1, Append(current, At(s, i)), result)

RECURSIVE splitLoop(_, _, _, _, _, _)
splitLoop(s, d, e, i, current, result) ==
  IF ~(i < Len(s)) THEN Append(result, current)
  ELSE IF /\ <<At(s, i)>> = e
          /\ i + 1 < Len(s)
          /\ (<<At(s, i + 1)>> = d \/ <<At(s, i + 1)>> = e)
       THEN splitLoop(s, d, e, i + 2, Append(current, At(s, i + 1)), result)
  ELSE IF substring(s, i, i + Len(d)) = d
       THEN splitLoop(s, d, e, i + Len(d), <<>>, Append(result, current))
  ELSE splitLoop(s, d, e, i + 1, Append(current, At(s, i)), result)

\* A split that leaves out the last segment when it is empty.
splitDroppingEmptyLast(s, d, e) ==
  LET result == splitLoop(s, d, e, 0, <<>>, <<>>)
  IN  IF result[Len(result)] = <<>> THEN SubSeq(result, 1, Len(result) - 1)
      ELSE result

splitWithEscape(s, d, e) == splitLoop(s, d, e, 0, <<>>, <<>>)

RECURSIVE unescapeLoop(_, _, _, _, _)
unescapeLoop(s, d, e, i, result) ==
  IF ~(i < Len(s)) THEN result
  ELSE IF /\ <<At(s, i)>> = e
          /\ i + 1 < Len(s)
          /\ (<<At(s, i + 1)>> = d \/ <<At(s, i + 1)>> = e)
       THEN unescapeLoop(s, d, e, i + 2, Append(result, At(s, i + 1)))
  ELSE unescapeLoop(s, d, e, i + 1, Append(result, At(s, i)))

unescape(s, d, e) == unescapeLoop(s, d, e, 0, <<>>)

RECURSIVE escapeLoop(_, _, _, _, _)
escapeLoop(s, d, e, i, result) ==
  IF ~(i < Len(s)) THEN result
  ELSE LET char == CodePointAt(s, i)
       IN  IF char = d \/ char = e
           THEN escapeLoop(s, d, e, i + Len(char), result \o e \o char)
           ELSE escapeLoop(s, d, e, i + Len(char), result \o char)

escape(s, d, e) == escapeLoop(s, d, e, 0, <<>>)

----------------------------------------------------------------------------
\* Every subsystem at rest: a specification starts the one it exercises.

CodecIdle ==
  /\ str = NoVal /\ delimiter = NoVal /\ escapeChar = NoVal /\ segments = NoVal
  /\ escaped = NoVal /\ unescaped = NoVal /\ joined = NoVal
  /\ splitResult = NoVal /\ codecPc = "idle"

AnIdle ==
  /\ schema = NoVal /\ positions = <<>> /\ schemaError = NoVal /\ anPc = "idle"

ParseIdle ==
  /\ rawOutput = NoVal /\ parserConfig = NoVal /\ mode = "none"
  /\ parseResult = NoVal
  /\ validatorCalls = <<>> /\ parsePc = "idle" /\ decodeLog = <<>>

OrchIdle ==
  /\ config = NoVal /\ providers = NoVal /\ created = NoVal /\ inv = NoVal

ClientIdle ==
  /\ providerName = NoVal /\ sdkInstalled = NoVal /\ client = NoVal
  /\ constructed = NoVal /\ getClientCalls = NoVal

PromptIdle ==
  /\ promptPositions = NoVal /\ promptConfig = NoVal /\ exampleRows = NoVal
  /\ promptPc = "idle"

----------------------------------------------------------------------------
\* Inputs of the codec.

CodecUnits == {"a", "|", "\\", "H", "L"}

\* "|" (the default), a two-unit delimiter, the escape character itself, and
\* a delimiter that is one character outside the Basic Multilingual Plane.
Delimiters == {<<"|">>, <<"|", "|">>, <<"\\">>, <<"H", "L">>}

EscapeChars == {<<"\\">>, <<"|">>}

StringsUpTo(units, n) == UNION {[1..k -> units] : k \in 0..n}

SegmentLists ==
  UNION {[1..k -> StringsUpTo({"a", "|", "\\"}, MaxSegLen)] : k \in 1..MaxSegs}

\* escape() then unescape() of one value.
CodecInit ==
  /\ str \in StringsUpTo(CodecUnits, MaxStrLen)
  /\ delimiter \in Delimiters
  /\ escapeChar \in EscapeChars
  /\ segments = NoVal
  /\ escaped = NoVal /\ unescaped = NoVal /\ joined = NoVal
  /\ splitResult = NoVal
  /\ codecPc = "start"
  /\ AnIdle /\ ParseIdle /\ OrchIdle /\ ClientIdle /\ PromptIdle

Escape ==
  /\ codecPc = "start"
  /\ escaped' = escape(str, delimiter, escapeChar)
  /\ codecPc' = "escaped"
  /\ UNCHANGED <<str, delimiter, escapeChar, segments, unescaped, joined, splitResult>>
  /\ UNCHANGED <<anVars, parseVars, orchVars, clientVars, promptVars>>

Unescape ==
  /\ codecPc = "escaped"
  /\ unescaped' = unescape(escaped, delimiter, escapeChar)
  /\ codecPc' = "done"
  /\ UNCHANGED <<str, delimiter, escapeChar, segments, escaped, joined, splitResult>>
  /\ UNCHANGED <<anVars, parseVars, orchVars, clientVars, promptVars>>

CodecNext == Escape \/ Unescape

CodecSpec == CodecInit /\ [][CodecNext]_vars

\* Each segment escaped, the escaped segments joined, the row split again.
JoinInit ==
  /\ segments \in SegmentLists
  /\ delimiter \in Delimiters
  /\ escapeChar \in EscapeChars
  /\ str = NoVal
  /\ escaped = NoVal /\ unescaped = NoVal /\ joined = NoVal
  /\ splitResult = NoVal
  /\ codecPc = "start"
  /\ AnIdle /\ ParseIdle /\ OrchIdle /\ ClientIdle /\ PromptIdle

EscapeAndJoin ==
  /\ codecPc = "start"
  /\ joined' = JoinWith([k \in 1..Len(segments) |->
                           escape(segments[k], delimiter, escapeChar)], delimiter)
  /\ codecPc' = "joined"
  /\ UNCHANGED <<str, delimiter, escapeChar, segments, escaped, unescaped, splitResult>>
  /\ UNCHANGED <<anVars, parseVars, orchVars, clientVars, promptVars>>

Split ==
  /\ codecPc = "joined"
  /\ splitResult' = splitWithEscape(joined, delimiter, escapeChar)
  /\ codecPc' = "done"
  /\ UNCHANGED <<str, delimiter, escapeChar, segments, escaped, unescaped, joined>>
  /\ UNCHANGED <<anVars, parseVars, orchVars, clientVars, promptVars>>

JoinNext == EscapeAndJoin \/ Split

JoinSpec == JoinInit /\ [][JoinNext]_vars

\* splitWithEscape of any string.
SplitInit ==
  /\ str \in StringsUpTo(CodecUnits, MaxStrLen)
  /\ delimiter \in Delimiters
  /\ escapeChar \in EscapeChars
  /\ segments = NoVal
  /\ escaped = NoVal /\ unescaped = NoVal /\ joined = NoVal
  /\ splitResult = NoVal
  /\ codecPc = "start"
  /\ AnIdle /\ ParseIdle /\ OrchIdle /\ ClientIdle /\ PromptIdle

SplitWithEscape ==
  /\ codecPc = "start"
  /\ splitResult' = splitWithEscape(str, delimiter, escapeChar)
  /\ codecPc' = "done"
  /\ UNCHANGED <<str, delimiter, escapeChar, segments, escaped, unescaped, joined>>
  /\ UNCHANGED <<anVars, parseVars, orchVars, clientVars, promptVars>>

SplitNext == SplitWithEscape

SplitSpec == SplitInit /\ [][SplitNext]_vars

----------------------------------------------------------------------------
\* schema-analyzer.ts
\*
\* A schema node is [typeName, inner, shape]: typeName is what getTypeName
\* returns, inner holds what getInnerType returns (<<>> for null), shape
\* holds the fields of an object as [key, value] records in the order the
\* schema declares them (the order the properties were created in).  A path
\* and a key are strings.

Node(typeName, inner, shape) ==
  [typeName |-> typeName, inner |-> inner, shape |-> shape]

getTypeName(node) == node.typeName
getInnerType(node) == node.inner
getShape(node) == node.shape

DigitValue(c) ==
  CASE c = "0" -> 0 [] c = "1" -> 1 [] c = "2" -> 2 [] c = "3" -> 3 [] c = "4" -> 4
    [] c = "5" -> 5 [] c = "6" -> 6 [] c = "7" -> 7 [] c = "8" -> 8 [] c = "9" -> 9
    [] OTHER -> -1

\* A property key that is a canonical array index: "0", "1", ..., no "01".
IsArrayIndex(key) ==
  /\ key # <<>>
  /\ \A i \in 1..Len(key) : DigitValue(key[i]) >= 0
  /\ (Len(key) > 1 => key[1] # "0")

RECURSIVE IndexValue(_)
IndexValue(key) ==
  IF key = <<>> THEN 0
  ELSE 10 * IndexValue(SubSeq(key, 1, Len(key) - 1)) + DigitValue(key[Len(key)])

\* Object.entries(shape): own properties in property order, which is the
\* array-index keys in ascending numeric order, then the other keys in the
\* order they were created.
ObjectEntries(shape) ==
  LET isIndex(e) == IsArrayIndex(e.key)
      before(e, f) == IndexValue(e.key) < IndexValue(f.key)
  IN  SortSeq(SelectSeq(shape, isIndex), before)
        \o SelectSeq(shape, LAMBDA e : ~isIndex(e))

getFieldType(node) ==
  CASE getTypeName(node) = "ZodString" -> "string"
    [] getTypeName(node) = "ZodNumber" -> "number"
    [] getTypeName(node) = "ZodBoolean" -> "boolean"
    [] getTypeName(node) = "ZodDate" -> "date"
    [] getTypeName(node) \in {"ZodEnum", "ZodNativeEnum"} -> "enum"
    [] getTypeName(node) = "ZodLiteral" -> "literal"
    [] getTypeName(node) = "ZodObject" -> "json"
    [] OTHER -> "string"

\* The analysis in progress: the closure variables positions and
\* currentPosition of analyzeSchema, and the SchemaError once one is thrown.
NoError == [schemaPath |-> <<>>, typeName |-> "<none>"]

AnalysisStart ==
  [positions |-> <<>>, currentPosition |-> 0, thrown |-> FALSE, error |-> NoError]

\* positions.push without the increment of currentPosition.
pushPositionNoIncrement(st, path, type, optional, nullable, arrayItemType) ==
  [st EXCEPT
     !.positions = Append(@, [path |-> path, position |-> st.currentPosition,
                              type |-> type, optional |-> optional,
                              nullable |-> nullable,
                              arrayItemType |-> arrayItemType])]

\* positions.push({path, position: currentPosition++, type, optional, nullable, ...})
pushPosition(st, path, type, optional, nullable, arrayItemType) ==
  [st EXCEPT
     !.positions = Append(@, [path |-> path, position |-> st.currentPosition,
                              type |-> type, optional |-> optional,
                              nullable |-> nullable,
                              arrayItemType |-> arrayItemType]),
     !.currentPosition = @ + 1]

throwSchemaError(st, path, typeName) ==
  [st EXCEPT !.thrown = TRUE,
             !.error = [schemaPath |-> path, typeName |-> typeName]]

\* `${path}.${key}` when path is non-empty, else key.
nestedPath(path, key) == IF path # <<>> THEN path \o <<".">> \o key ELSE key

RECURSIVE analyze(_, _, _, _, _)
RECURSIVE analyzeEntries(_, _, _, _, _, _)

RECURSIVE analyzeEntriesResettingFlags(_, _, _, _, _, _)
\* A loop over a nested object that starts its fields with both flags false.
analyzeEntriesResettingFlags(entries, k, path, optional, nullable, st) ==
  IF k > Len(entries) \/ st.thrown THEN st
  ELSE analyzeEntriesResettingFlags(entries, k + 1, path, optional, nullable,
         analyze(entries[k].value, nestedPath(path, entries[k].key),
                 FALSE, FALSE, st))

\* The loop `for (const [key, value] of Object.entries(shape))` of a nested
\* object, from entry k of entries on; a throw ends it.
analyzeEntries(entries, k, path, optional, nullable, st) ==
  IF k > Len(entries) \/ st.thrown THEN st
  ELSE analyzeEntries(entries, k + 1, path, optional, nullable,
         analyze(entries[k].value, nestedPath(path, entries[k].key),
                 optional, nullable, st))

analyze(fieldSchema, path, optional, nullable, st) ==
  LET typeName == getTypeName(fieldSchema)
      inner == getInnerType(fieldSchema)
  IN
  CASE typeName = "ZodString" ->
         pushPosition(st, path, "string", optional, nullable, "undefined")
    [] typeName = "ZodNumber" ->
         pushPosition(st, path, "number", optional, nullable, "undefined")
    [] typeName = "ZodBoolean" ->
         pushPosition(st, path, "boolean", optional, nullable, "undefined")
    [] typeName = "ZodDate" ->
         pushPosition(st, path, "date", optional, nullable, "undefined")
    [] typeName \in {"ZodEnum", "ZodNativeEnum"} ->
         pushPosition(st, path, "enum", optional, nullable, "undefined")
    [] typeName = "ZodLiteral" ->
         pushPosition(st, path, "literal", optional, nullable, "undefined")
    [] typeName \in {"ZodOptional", "ZodNullable"} ->
         IF inner # <<>>
         THEN analyze(inner[1], path,
                      optional \/ typeName = "ZodOptional",
                      nullable \/ typeName = "ZodNullable", st)
         ELSE st
    [] typeName \in {"ZodDefault", "ZodCatch", "ZodBranded", "ZodPipeline",
                     "ZodReadonly"} ->
         IF inner # <<>> THEN analyze(inner[1], path, optional, nullable, st)
         ELSE st
    [] typeName = "ZodArray" ->
         IF inner # <<>>
         THEN LET isObjectArray == getTypeName(inner[1]) = "ZodObject"
              IN  pushPosition(st, path,
                    IF isObjectArray THEN "json" ELSE "array",
                    optional, nullable,
                    IF isObjectArray THEN "undefined" ELSE getFieldType(inner[1]))
         ELSE st
    [] typeName = "ZodObject" ->
         analyzeEntries(ObjectEntries(getShape(fieldSchema)), 1, path,
                        optional, nullable, st)
    [] typeName \in {"ZodUnion", "ZodDiscriminatedUnion"} ->
         pushPosition(st, path, "string", optional, nullable, "undefined")
    [] typeName = "ZodEffects" ->
         IF inner # <<>> THEN analyze(inner[1], path, optional, nullable, st)
         ELSE pushPosition(st, path, "string", optional, nullable, "undefined")
    [] typeName \in {"ZodAny", "ZodUnknown"} ->
         pushPosition(st, path, "string", optional, nullable, "undefined")
    [] typeName \in {"ZodRecord", "ZodMap", "ZodSet", "ZodFunction", "ZodLazy",
                     "ZodPromise"} ->
         throwSchemaError(st, path, typeName)
    [] OTHER ->
         pushPosition(st, path, "string", optional, nullable, "undefined")

RECURSIVE analyzeRoot(_, _, _)
\* The loop over the root shape: analyze(value, key, false, false).
analyzeRoot(entries, k, st) ==
  IF k > Len(entries) \/ st.thrown THEN st
  ELSE analyzeRoot(entries, k + 1,
         analyze(entries[k].value, entries[k].key, FALSE, FALSE, st))

\* analyzeSchema(schema): the final closure state; the caller gets
\* .positions unless it has thrown, and then the SchemaError .error.
analyzeSchema(s) == analyzeRoot(ObjectEntries(getShape(s)), 1, AnalysisStart)

----------------------------------------------------------------------------
\* Inputs of the analyzer: every root object whose tree has at most MaxNodes
\* nodes below the root.

LeafTypeNames == {"ZodString", "ZodNumber", "ZodUnion", "ZodRecord"}
UnaryTypeNames == {"ZodOptional", "ZodNullable", "ZodDefault", "ZodArray"}
Keys == {<<"a">>, <<"b">>, <<"1">>, <<"0">>}

RECURSIVE TreesOfSize(_)
RECURSIVE ShapesOfSize(_, _)

\* The shapes (declared fields with distinct keys) whose values have n nodes
\* in all.
ShapesOfSize(n, used) ==
  IF n = 0 THEN {<<>>}
  ELSE UNION {
         {<<[key |-> k, value |-> t]>> \o rest :
            t \in TreesOfSize(m), rest \in ShapesOfSize(n - m, used \cup {k})} :
         m \in 1..n, k \in Keys \ used }

TreesOfSize(n) ==
  IF n = 0 THEN {}
  ELSE (IF n = 1 THEN {Node(t, <<>>, <<>>) : t \in LeafTypeNames} ELSE {})
       \cup {Node(u, <<t>>, <<>>) : u \in UnaryTypeNames, t \in TreesOfSize(n - 1)}
       \cup {Node("ZodObject", <<>>, sh) : sh \in ShapesOfSize(n - 1, {})}

Schemas ==
  UNION {{Node("ZodObject", <<>>, sh) : sh \in ShapesOfSize(n, {})} : n \in 0..MaxNodes}

AnInit ==
  /\ schema \in Schemas
  /\ positions = <<>> /\ schemaError = NoError
  /\ anPc = "start"
  /\ CodecIdle /\ ParseIdle /\ OrchIdle /\ ClientIdle /\ PromptIdle

AnalyzeSchema ==
  /\ anPc = "start"
  /\ LET st == analyzeSchema(schema)
     IN  /\ positions' = IF st.thrown THEN <<>> ELSE st.positions
         /\ schemaError' = st.error
         /\ anPc' = IF st.thrown THEN "thrown" ELSE "returned"
  /\ UNCHANGED schema
  /\ UNCHANGED <<codecVars, parseVars, orchVars, clientVars, promptVars>>

AnNext == AnalyzeSchema

AnSpec == AnInit /\ [][AnNext]_vars

----------------------------------------------------------------------------
\* JavaScript string methods used by the parser and the coercion.

\* White space and line terminators String.prototype.trim removes (those of
\* the model's alphabet).
IsWhiteSpace(c) == c \in {" ", "\t", "\n", "\r"}

RECURSIVE trimStart(_)
trimStart(s) ==
  IF s # <<>> /\ IsWhiteSpace(Head(s)) THEN trimStart(Tail(s)) ELSE s

RECURSIVE trimEnd(_)
trimEnd(s) ==
  IF s # <<>> /\ IsWhiteSpace(s[Len(s)]) THEN trimEnd(SubSeq(s, 1, Len(s) - 1))
  ELSE s

trim(s) == trimEnd(trimStart(s))

UpperCaseLetters ==
  <<"A", "B", "C", "D", "E", "F", "G", "H", "I", "J", "K", "L", "M",
    "N", "O", "P", "Q", "R", "S", "T", "U", "V", "W", "X", "Y", "Z">>
LowerCaseLetters ==
  <<"a", "b", "c", "d", "e", "f", "g", "h", "i", "j", "k", "l", "m",
    "n", "o", "p", "q", "r", "s", "t", "u", "v", "w", "x", "y", "z">>

toLowerCaseUnit(c) ==
  IF \E i \in 1..Len(UpperCaseLetters) : UpperCaseLetters[i] = c
  THEN LowerCaseLetters[CHOOSE i \in 1..Len(UpperCaseLetters) : UpperCaseLetters[i] = c]
  ELSE c

\* The string as it is, upper-case letters included.
keepCase(s) == s

toLowerCase(s) == [i \in 1..Len(s) |-> toLowerCaseUnit(s[i])]

RECURSIVE splitScan(_, _, _, _, _)
splitScan(s, sep, i, current, result) ==
  IF ~(i < Len(s)) THEN Append(result, current)
  ELSE IF substring(s, i, i + Len(sep)) = sep
       THEN splitScan(s, sep, i + Len(sep), <<>>, Append(result, current))
  ELSE splitScan(s, sep, i + 1, Append(current, At(s, i)), result)

\* String.prototype.split(sep) for a non-empty separator.
split(s, sep) == splitScan(s, sep, 0, <<>>, <<>>)

----------------------------------------------------------------------------
\* utils/coercion.ts
\*
\* A JavaScript value is [t, v]: t its kind, v its text (a string's units,
\* <<"true">> or <<"false">> for a boolean, <<>> for undefined, null and
\* an object, the decimal text of a number, the text a Date was made from)
\* or, for an array, the sequence of its items.

StringValue(s) == [t |-> "string", v |-> s]
BooleanValue(b) == [t |-> "boolean", v |-> IF b THEN <<"true">> ELSE <<"false">>]
Undefined == [t |-> "undefined", v |-> <<>>]
Null == [t |-> "null", v |-> <<>>]
ObjectValue == [t |-> "object", v |-> <<>>]

coerceBoolean(value) ==
  LET trimmed == toLowerCase(trim(value))
  IN  IF trimmed \in {<<"t", "r", "u", "e">>, <<"1">>, <<"y", "e", "s">>}
      THEN BooleanValue(TRUE)
      ELSE IF trimmed \in {<<"f", "a", "l", "s", "e">>, <<"0">>, <<"n", "o">>}
      THEN BooleanValue(FALSE)
      ELSE BooleanValue(trimmed # <<>>)

NumberValue(text) == [t |-> "number", v |-> <<text>>]
DateValue(text) == [t |-> "date", v |-> text]
ArrayValue(items) == [t |-> "array", v |-> items]

DecimalDigits == {"0", "1", "2", "3", "4", "5", "6", "7", "8", "9"}

IsDecimalDigits(s) == s # <<>> /\ \A i \in 1..Len(s) : s[i] \in DecimalDigits

\* The number an optional sign, given as minus, and the text after it spell:
\* decimal digits are their value, "Infinity" (in exactly this spelling) is
\* infinity, and anything else is NaN.
NumberAfterSign(unsigned, minus) ==
  IF IsDecimalDigits(unsigned)
  THEN NumberValue(minus \o ToString(IndexValue(unsigned)))
  ELSE IF unsigned = <<"I", "n", "f", "i", "n", "i", "t", "y">>
  THEN NumberValue(minus \o "Infinity")
  ELSE NumberValue("NaN")

\* Number(text), for texts without dot, exponent or radix prefix: the empty
\* text is 0, and any other text is the number it spells, or NaN.
Number(text) ==
  IF text = <<>> THEN NumberValue("0")
  ELSE NumberAfterSign(IF text[1] \in {"+", "-"} THEN Tail(text) ELSE text,
                       IF text[1] = "-" THEN "-" ELSE "")

coerceNumber(value) ==
  LET trimmed == trim(value)
  IN  IF toLowerCase(trimmed) = <<"n", "a", "n">> THEN NumberValue("NaN")
      ELSE IF toLowerCase(trimmed) = <<"i", "n", "f", "i", "n", "i", "t", "y">>
              \/ trimmed = <<"+", "I", "n", "f", "i", "n", "i", "t", "y">>
      THEN NumberValue("Infinity")
      ELSE IF trimmed = <<"-", "I", "n", "f", "i", "n", "i", "t", "y">>
      THEN NumberValue("-Infinity")
      ELSE Number(trimmed)

\* new Date(trimmed): the Date made from the text, valid or not.
coerceDate(value) == DateValue(trim(value))

\* An array coercion that leaves the white space around each item.
coerceArrayUntrimmed(value, subDelimiter) ==
  LET items == split(value, subDelimiter)
  IN  ArrayValue([i \in 1..Len(items) |-> StringValue(items[i])])

\* value.split(subDelimiter).map(trim): an array of strings.
coerceArray(value, subDelimiter) ==
  LET items == split(value, subDelimiter)
  IN  ArrayValue([i \in 1..Len(items) |-> StringValue(trim(items[i]))])

\* A JSON number: decimal digits without a leading zero.
IsJSONDigits(digits) ==
  IsDecimalDigits(digits) /\ (Len(digits) = 1 \/ digits[1] # "0")

\* JSON.parse(text), for texts without quotes, brackets, braces, dot or
\* exponent: null, true, false and the decimal numbers without a leading
\* zero, with an optional minus sign, are values, and anything else is a
\* SyntaxError (thrown = TRUE).
JSONParse(text) ==
  IF text = <<"n", "u", "l", "l">> THEN [thrown |-> FALSE, value |-> Null]
  ELSE IF text = <<"t", "r", "u", "e">>
  THEN [thrown |-> FALSE, value |-> BooleanValue(TRUE)]
  ELSE IF text = <<"f", "a", "l", "s", "e">>
  THEN [thrown |-> FALSE, value |-> BooleanValue(FALSE)]
  ELSE IF text # <<>> /\ IsJSONDigits(IF text[1] = "-" THEN Tail(text) ELSE text)
  THEN [thrown |-> FALSE, value |-> Number(text)]
  ELSE [thrown |-> TRUE, value |-> Undefined]

coerceJson(value) ==
  LET trimmed == trim(value)
      parsed == JSONParse(trimmed)
  IN  IF parsed.thrown THEN StringValue(trimmed) ELSE parsed.value

\* A coercion that turns the empty string into a string value.
coerceValueKeepingEmpty(value, type, cfg) ==
  CASE type = "string" -> StringValue(value)
    [] type = "number" -> coerceNumber(value)
    [] type = "boolean" -> coerceBoolean(value)
    [] type = "date" -> coerceDate(value)
    [] type = "array" -> coerceArray(value, cfg.subDelimiter)
    [] type = "json" -> coerceJson(value)
    [] type \in {"enum", "literal"} -> StringValue(value)
    [] OTHER -> StringValue(value)

coerceValue(value, type, cfg) ==
  IF value = <<>> THEN Undefined
  ELSE CASE type = "string" -> StringValue(value)
         [] type = "number" -> coerceNumber(value)
         [] type = "boolean" -> coerceBoolean(value)
         [] type = "date" -> coerceDate(value)
         [] type = "array" -> coerceArray(value, cfg.subDelimiter)
         [] type = "json" -> coerceJson(value)
         [] type \in {"enum", "literal"} -> StringValue(value)
         [] OTHER -> StringValue(value)

\* items.map((item) => coerceValue(item, itemType, config))
coerceArrayItems(items, itemType, cfg) ==
  [i \in 1..Len(items) |-> coerceValue(items[i].v, itemType, cfg)]

----------------------------------------------------------------------------
\* parser.ts
\*
\* An object built by parseRow is the set of its leaf properties, each
\* [parts, value] with parts the keys from the root down to the leaf.

IsPrefix(p, q) == Len(p) <= Len(q) /\ SubSeq(q, 1, Len(p)) = p

\* setNestedValue(obj, path, value): a non-object on the way down is replaced
\* by a fresh object, and what was at the path is overwritten.
setNestedValue(obj, path, value) ==
  LET parts == split(path, <<".">>)
  IN  {b \in obj : ~IsPrefix(b.parts, parts) /\ ~IsPrefix(parts, b.parts)}
        \cup {[parts |-> parts, value |-> value]}

\* obj[parts[1]][parts[2]]...
valueAt(obj, parts) ==
  IF \E b \in obj : b.parts = parts
  THEN (CHOOSE b \in obj : b.parts = parts).value
  ELSE IF \E b \in obj : IsPrefix(parts, b.parts) THEN ObjectValue
  ELSE Undefined

RECURSIVE safeParseAt(_, _, _)
\* schema.safeParse(data).success, for the node kinds of ParserSchemas: the
\* value at parts is what the node accepts.
safeParseAt(node, data, parts) ==
  LET value == valueAt(data, parts)
  IN  CASE node.typeName = "ZodString" -> value.t = "string"
        [] node.typeName = "ZodBoolean" -> value.t = "boolean"
        [] node.typeName = "ZodOptional" ->
             value.t = "undefined" \/ safeParseAt(node.inner[1], data, parts)
        [] node.typeName = "ZodNullable" ->
             value.t = "null" \/ safeParseAt(node.inner[1], data, parts)
        [] node.typeName = "ZodObject" ->
             /\ parts # <<>> => value.t = "object"
             /\ \A k \in 1..Len(node.shape) :
                  safeParseAt(node.shape[k].value, data,
                              Append(parts, node.shape[k].key))

safeParse(s, data) == safeParseAt(s, data, <<>>)

RECURSIVE issuesAt(_, _, _)
\* schema.safeParse(data).error.issues, each issue by its path: the places
\* of data that hold what the schema does not accept.
issuesAt(node, data, parts) ==
  LET value == valueAt(data, parts)
  IN  CASE node.typeName = "ZodString" ->
             IF value.t = "string" THEN {} ELSE {parts}
        [] node.typeName = "ZodBoolean" ->
             IF value.t = "boolean" THEN {} ELSE {parts}
        [] node.typeName = "ZodOptional" ->
             IF value.t = "undefined" THEN {}
             ELSE issuesAt(node.inner[1], data, parts)
        [] node.typeName = "ZodNullable" ->
             IF value.t = "null" THEN {}
             ELSE issuesAt(node.inner[1], data, parts)
        [] node.typeName = "ZodObject" ->
             IF parts # <<>> /\ value.t # "object" THEN {parts}
             ELSE UNION {issuesAt(node.shape[k].value, data,
                                  Append(parts, node.shape[k].key)) :
                           k \in 1..Len(node.shape)}

safeParseIssues(s, data) == issuesAt(s, data, <<>>)

\* rowIndex of an error that names no row.
NoRowIndex == -1

\* What parsePositionalOutput and its helpers return or throw: kind is "ok",
\* "ParseError" or "ValidationError"; data holds the returned record (one
\* element) or records; parsedData and zodError are the ValidationError's
\* record and issues.
Returned(data, warnings) ==
  [kind |-> "ok", data |-> data, warnings |-> warnings,
   rawResponse |-> <<>>, rowIndex |-> NoRowIndex,
   expectedColumns |-> 0, actualColumns |-> 0, parsedData |-> {},
   zodError |-> {}]

ParseError(rawResponse, rowIndex, expectedColumns, actualColumns) ==
  [kind |-> "ParseError", data |-> <<>>, warnings |-> <<>>,
   rawResponse |-> rawResponse, rowIndex |-> rowIndex,
   expectedColumns |-> expectedColumns, actualColumns |-> actualColumns,
   parsedData |-> {}, zodError |-> {}]

ValidationError(zodError, parsedData, rowIndex) ==
  [kind |-> "ValidationError", data |-> <<>>, warnings |-> <<>>,
   rawResponse |-> <<>>, rowIndex |-> rowIndex,
   expectedColumns |-> 0, actualColumns |-> 0, parsedData |-> parsedData,
   zodError |-> zodError]

\* A filter that keeps every line.
isAnyLine(line) == TRUE

\* A filter that drops the lines of one character too.
isLineOfSeveralCharacters(line) == Len(line) > 1

isNonEmptyLine(line) == Len(line) > 0

\* rawOutput.trim().split("\n").map(trim).filter(length > 0)
cleanAndSplitRows(raw) ==
  LET lines == split(trim(raw), <<"\n">>)
  IN  SelectSeq([i \in 1..Len(lines) |-> trim(lines[i])], isNonEmptyLine)

\* A column check that lets extra columns pass.
columnCountTooFew(values, ps) == Len(values) < Len(ps)

columnCountMismatch(values, ps) == Len(values) # Len(ps)

\* `if (position.type === "array" && Array.isArray(value) &&
\* position.arrayItemType) value = coerceArrayItems(...)`
withArrayItems(coerced, position, cfg) ==
  IF position.type = "array" /\ coerced.t = "array"
     /\ position.arrayItemType # "undefined"
  THEN ArrayValue(coerceArrayItems(coerced.v, position.arrayItemType, cfg))
  ELSE coerced

\* `if (position.nullable && rawValue.toLowerCase() === "null") value = null`
withNull(value, rawValue, position) ==
  IF position.nullable /\ toLowerCase(rawValue) = <<"n", "u", "l", "l">>
  THEN Null ELSE value

\* The value parseRow sets for a position: coerced, its items coerced, null.
fieldValue(rawValue, position, cfg) ==
  withNull(withArrayItems(coerceValue(rawValue, position.type, cfg),
                          position, cfg),
           rawValue, position)

RECURSIVE buildObject(_, _, _, _, _)
\* The loop `for (const position of positions)` of parseRow.
buildObject(values, ps, cfg, k, result) ==
  IF k > Len(ps) THEN result
  ELSE buildObject(values, ps, cfg, k + 1,
         setNestedValue(result, ps[k].path,
                        fieldValue(At(values, ps[k].position), ps[k], cfg)))

\* parseRow once the row is split: the column check, then the object.
checkAndBuild(values, row, ps, cfg, rowIndex) ==
  IF columnCountMismatch(values, ps)
  THEN ParseError(row, rowIndex, Len(ps), Len(values))
  ELSE Returned(<<buildObject(values, ps, cfg, 1, {})>>, <<>>)

parseRow(row, ps, cfg, rowIndex) ==
  checkAndBuild(splitWithEscape(row, cfg.delimiter, cfg.escapeChar),
                row, ps, cfg, rowIndex)

\* A parseRowRaw whose row index is the number of decode calls made before.
parseRowRawCounting(row, ps, cfg) == parseRow(row, ps, cfg, Len(decodeLog))

\* parseRowRaw: parseRow at row index 0, without validation.
parseRowRaw(row, ps, cfg) == parseRow(row, ps, cfg, 0)

RECURSIVE parseRows(_, _, _, _, _)

\* The body of the loop over rows once parseRow has ended: rethrow its
\* ParseError, or push the record and go on.
pushParsed(parsed, rows, ps, cfg, rowIndex, parsedRows) ==
  IF parsed.kind = "ParseError" THEN parsed
  ELSE parseRows(rows, ps, cfg, rowIndex + 1, parsedRows \o parsed.data)

\* The loop over rows: the first row that fails ends it with its ParseError.
parseRows(rows, ps, cfg, rowIndex, parsedRows) ==
  IF ~(rowIndex < Len(rows)) THEN Returned(parsedRows, <<>>)
  ELSE pushParsed(parseRow(At(rows, rowIndex), ps, cfg, rowIndex),
                  rows, ps, cfg, rowIndex, parsedRows)

validateWithZod(s, data, rowIndex) ==
  IF ~safeParse(s, data)
  THEN ValidationError(safeParseIssues(s, data), data, rowIndex)
  ELSE Returned(<<data>>, <<>>)

\* `Expected single object but got ${n} rows. Using first row.`
multiRowWarning(n) ==
  <<"Expected single object but got ", ToString(n), " rows. Using first row.">>

\* No warning whatever the number of rows.
noWarnings(parsedRows) == <<>>

singleModeWarnings(parsedRows) ==
  IF Len(parsedRows) > 1 THEN <<multiRowWarning(Len(parsedRows))>> ELSE <<>>

\* unshift in place of push.
unshiftValidated(validatedRows, validated) == validated.data \o validatedRows

pushValidated(validatedRows, validated) == validatedRows \o validated.data

RECURSIVE validateRowsKeepingValid(_, _, _, _, _)
\* A loop whose ValidationError carries the rows validated before it.
validateRowsKeepingValid(s, parsedRows, i, validatedRows, calls) ==
  IF ~(i < Len(parsedRows))
  THEN [result |-> Returned(validatedRows, <<>>), calls |-> calls]
  ELSE LET validated == validateWithZod(s, At(parsedRows, i), i)
       IN  IF validated.kind = "ValidationError"
           THEN [result |-> [validated EXCEPT !.data = validatedRows],
                 calls |-> Append(calls, i)]
           ELSE validateRowsKeepingValid(s, parsedRows, i + 1,
                                         pushValidated(validatedRows, validated),
                                         Append(calls, i))

RECURSIVE validateRows(_, _, _, _, _)

\* The body of the loop of array mode once validateWithZod has ended.
validatedRow(validated, s, parsedRows, i, validatedRows, calls) ==
  IF validated.kind = "ValidationError"
  THEN [result |-> validated, calls |-> Append(calls, i)]
  ELSE validateRows(s, parsedRows, i + 1,
                    pushValidated(validatedRows, validated), Append(calls, i))

\* The loop of array mode; .calls are the row indices handed to the validator.
validateRows(s, parsedRows, i, validatedRows, calls) ==
  IF ~(i < Len(parsedRows))
  THEN [result |-> Returned(validatedRows, <<>>), calls |-> calls]
  ELSE validatedRow(validateWithZod(s, At(parsedRows, i), i),
                    s, parsedRows, i, validatedRows, calls)

\* Object mode once validateWithZod has ended for the first row.
validatedFirst(validated, parsedRows) ==
  [result |-> IF validated.kind = "ValidationError" THEN validated
              ELSE Returned(validated.data, singleModeWarnings(parsedRows)),
   calls |-> <<0>>]

\* parsePositionalOutput once the loop over rows has ended.
validateParsed(parsed, s, m) ==
  IF parsed.kind = "ParseError" THEN [result |-> parsed, calls |-> <<>>]
  ELSE IF m = "object"
  THEN validatedFirst(validateWithZod(s, At(parsed.data, 0), 0), parsed.data)
  ELSE validateRows(s, parsed.data, 0, <<>>, <<>>)

\* parsePositionalOutput once the output is split into rows.
parseCleanRows(rows, raw, ps, s, cfg, m) ==
  IF Len(rows) = 0
  THEN [result |-> ParseError(raw, NoRowIndex, Len(ps), 0), calls |-> <<>>]
  ELSE validateParsed(parseRows(rows, ps, cfg, 0, <<>>), s, m)

\* A decoding that validates the first row before it parses the others.
parsePositionalOutputValidatingFirst(raw, ps, s, cfg, m) ==
  LET rows == cleanAndSplitRows(raw)
      first == parseRow(At(rows, 0), ps, cfg, 0)
      validated == validateWithZod(s, At(first.data, 0), 0)
      parsed == parseRows(rows, ps, cfg, 0, <<>>)
  IN  IF Len(rows) = 0
      THEN [result |-> ParseError(raw, NoRowIndex, Len(ps), 0), calls |-> <<>>]
      ELSE IF first.kind = "ParseError"
      THEN [result |-> first, calls |-> <<>>]
      ELSE IF validated.kind = "ValidationError"
      THEN [result |-> validated, calls |-> <<0>>]
      ELSE IF parsed.kind = "ParseError"
      THEN [result |-> parsed, calls |-> <<0>>]
      ELSE IF m = "object"
      THEN [result |-> Returned(validated.data, singleModeWarnings(parsed.data)),
            calls |-> <<0>>]
      ELSE validateRows(s, parsed.data, 0, <<>>, <<>>)

\* parsePositionalOutput(rawOutput, positions, schema, config, mode): .result
\* is what it returns or throws, .calls the validator's calls.
parsePositionalOutput(raw, ps, s, cfg, m) ==
  parseCleanRows(cleanAndSplitRows(raw), raw, ps, s, cfg, m)

----------------------------------------------------------------------------
\* Inputs of the parser.

Field(key, value) == [key |-> key, value |-> value]
ZodString == Node("ZodString", <<>>, <<>>)
ZodBoolean == Node("ZodBoolean", <<>>, <<>>)
ZodOptional(t) == Node("ZodOptional", <<t>>, <<>>)
ZodNullable(t) == Node("ZodNullable", <<t>>, <<>>)
ZodObject(shape) == Node("ZodObject", <<>>, shape)

\* z.object({}), z.object({a: string}), z.object({a: string, b: boolean |
\* null}), z.object({a: z.object({b: string, c: string?})}), and two schemas
\* with a key that holds a dot: z.object({"a.b": string}) and
\* z.object({a: z.object({b: string}), "a.b": string}).
ParserSchemas ==
  { ZodObject(<<>>),
    ZodObject(<<Field(<<"a", ".", "b">>, ZodString)>>),
    ZodObject(<<Field(<<"a">>, ZodObject(<<Field(<<"b">>, ZodString)>>)),
                Field(<<"a", ".", "b">>, ZodString)>>),
    ZodObject(<<Field(<<"a">>, ZodString)>>),
    ZodObject(<<Field(<<"a">>, ZodString),
                Field(<<"b">>, ZodNullable(ZodBoolean))>>),
    ZodObject(<<Field(<<"a">>,
                  ZodObject(<<Field(<<"b">>, ZodString),
                              Field(<<"c">>, ZodOptional(ZodString))>>))>>) }

\* The defaults of the PositionalZod constructor, and a comma delimiter.
ParserConfigs ==
  { [delimiter |-> <<"|">>, escapeChar |-> <<"\\">>, subDelimiter |-> <<";">>],
    [delimiter |-> <<",">>, escapeChar |-> <<"\\">>, subDelimiter |-> <<";">>] }

ParserLines ==
  { <<>>,
    <<" ">>,
    <<"x">>,
    <<"x", "|", "y">>,
    <<"x", "|">>,
    <<"x", "|", "y", "|", "z">>,
    <<"x", "\\", "|", "y">>,
    <<" ", "x", "|", "N", "o", "\r">>,
    <<"x", "|", "N", "U", "L", "L">>,
    <<"x", ",", "y">> }

RawOutputs ==
  {JoinWith(lines, <<"\n">>) :
     lines \in UNION {[1..n -> ParserLines] : n \in 0..MaxLines}}

\* The schema has been analyzed (completeWithProvider, step 1); the producer's
\* text is about to be parsed (step 4).
ParseInit ==
  /\ schema \in ParserSchemas
  /\ positions = analyzeSchema(schema).positions
  /\ schemaError = NoError
  /\ anPc = "returned"
  /\ rawOutput \in RawOutputs
  /\ parserConfig \in ParserConfigs
  /\ mode \in {"object", "array"}
  /\ parseResult = NoVal
  /\ validatorCalls = <<>>
  /\ parsePc = "start"
  /\ decodeLog = <<>>
  /\ CodecIdle /\ OrchIdle /\ ClientIdle /\ PromptIdle

ParsePositionalOutput ==
  /\ parsePc = "start"
  /\ \E out \in {parsePositionalOutput(rawOutput, positions, schema,
                                        parserConfig, mode)} :
         /\ parseResult' = out.result
         /\ validatorCalls' = out.calls
  /\ parsePc' = "done"
  /\ UNCHANGED <<rawOutput, parserConfig, mode, decodeLog>>
  /\ UNCHANGED <<codecVars, anVars, orchVars, clientVars, promptVars>>

ParseNext == ParsePositionalOutput

ParseSpec == ParseInit /\ [][ParseNext]_vars

----------------------------------------------------------------------------
\* Inputs of parseRowRaw: schemas with a field of every kind, and rows that
\* leave a segment empty or spell null.

ZodNumber == Node("ZodNumber", <<>>, <<>>)
ZodDate == Node("ZodDate", <<>>, <<>>)
ZodEnum == Node("ZodEnum", <<>>, <<>>)
ZodLiteral == Node("ZodLiteral", <<>>, <<>>)
ZodArray(t) == Node("ZodArray", <<t>>, <<>>)

\* One schema type per field kind: string, number, boolean, date, enum,
\* literal, array (of strings and of numbers) and json (an array of objects).
RowLeafTypes ==
  { ZodString, ZodNumber, ZodBoolean, ZodDate, ZodEnum, ZodLiteral,
    ZodArray(ZodString), ZodArray(ZodNumber), ZodArray(ZodObject(<<>>)) }

\* z.object({a: string, b: T}) and z.object({a: string, b: T | null}) for
\* each of these types, and z.object({a: z.object({b: string}), "a.b": string}).
RowSchemas ==
  {ZodObject(<<Field(<<"a">>, ZodString), Field(<<"b">>, t)>>) :
     t \in RowLeafTypes \cup {ZodNullable(u) : u \in RowLeafTypes}}
  \cup {ZodObject(<<Field(<<"a">>, ZodObject(<<Field(<<"b">>, ZodString)>>)),
                    Field(<<"a", ".", "b">>, ZodString)>>)}

RowLines ==
  { <<"x">>,
    <<"x", "|">>,
    <<"|", "y">>,
    <<"|">>,
    <<"x", "|", "n", "u", "l", "l">>,
    <<"x", "|", "N", "u", "L", "l">>,
    <<"x", "|", " ", "n", "u", "l", "l">>,
    <<"x", "|", "1">>,
    <<"x", "|", "y", ";", ";", "1">>,
    <<"x", ",", "n", "u", "l", "l">>,
    <<"x", "|", "N", "a", "N">>,
    <<"x", "|", "n", "A", "n">>,
    <<"x", "|", "I", "N", "F", "I", "N", "I", "T", "Y">>,
    <<"x", "|", "+", "I", "n", "f", "i", "n", "i", "t", "y">>,
    <<"x", "|", "+", "i", "n", "f", "i", "n", "i", "t", "y">>,
    <<"x", "|", "-", "I", "n", "f", "i", "n", "i", "t", "y">>,
    <<"x", "|", "-", "I", "N", "F", "I", "N", "I", "T", "Y">>,
    <<"x", "|", "-", "1">>,
    <<"x", "|", "1", "x">>,
    <<"x", "|", "y", " ", ";", " ", ";", "\\", ";", "1">> }

\* The schema has been analyzed; a row is about to be decoded on its own.
RowInit ==
  /\ schema \in RowSchemas
  /\ positions = analyzeSchema(schema).positions
  /\ schemaError = NoError
  /\ anPc = "returned"
  /\ rawOutput \in RowLines
  /\ parserConfig \in ParserConfigs
  /\ mode = "none"
  /\ parseResult = NoVal
  /\ validatorCalls = <<>>
  /\ parsePc = "start"
  /\ decodeLog = <<>>
  /\ CodecIdle /\ OrchIdle /\ ClientIdle /\ PromptIdle

ParseRowRaw ==
  /\ parsePc = "start"
  /\ parseResult' = parseRowRaw(rawOutput, positions, parserConfig)
  /\ parsePc' = "done"
  /\ UNCHANGED <<rawOutput, parserConfig, mode, validatorCalls, decodeLog>>
  /\ UNCHANGED <<codecVars, anVars, orchVars, clientVars, promptVars>>

RowNext == ParseRowRaw

RowSpec == RowInit /\ [][RowNext]_vars

----------------------------------------------------------------------------
\* One Position List and one config shared by several decode calls.

MaxDecodeCalls == 2

ShareSchemas ==
  { ZodObject(<<Field(<<"a">>, ZodString),
                Field(<<"b">>, ZodNullable(ZodBoolean))>>),
    ZodObject(<<Field(<<"a">>,
                  ZodObject(<<Field(<<"b">>, ZodString),
                              Field(<<"c">>, ZodOptional(ZodString))>>))>>),
    ZodObject(<<Field(<<"a">>, ZodObject(<<Field(<<"b">>, ZodString)>>)),
                Field(<<"a", ".", "b">>, ZodString)>>) }

ShareTexts ==
  { <<"x">>,
    <<"x", "|", "y">>,
    <<"x", "|", "n", "u", "l", "l">>,
    <<"x", "|", "\n", "x", "|", "1">> }

ShareInit ==
  /\ schema \in ShareSchemas
  /\ positions = analyzeSchema(schema).positions
  /\ schemaError = NoError
  /\ anPc = "returned"
  /\ rawOutput = NoVal
  /\ parserConfig \in ParserConfigs
  /\ mode = "none"
  /\ parseResult = NoVal
  /\ validatorCalls = <<>>
  /\ parsePc = "start"
  /\ decodeLog = <<>>
  /\ CodecIdle /\ OrchIdle /\ ClientIdle /\ PromptIdle

\* A call of parsePositionalOutput on the shared Position List and config.
DecodeOutput(text, m) ==
  /\ Len(decodeLog) < MaxDecodeCalls
  /\ \E out \in {parsePositionalOutput(text, positions, schema, parserConfig, m)} :
         /\ parseResult' = out.result
         /\ validatorCalls' = out.calls
         /\ decodeLog' = Append(decodeLog,
                                [method |-> "parsePositionalOutput",
                                 text |-> text, mode |-> m,
                                 result |-> out.result])
  /\ rawOutput' = text
  /\ mode' = m
  /\ parsePc' = "done"
  /\ UNCHANGED parserConfig
  /\ UNCHANGED <<codecVars, anVars, orchVars, clientVars, promptVars>>

\* A call of parseRowRaw on the shared Position List and config.
DecodeRow(text) ==
  /\ Len(decodeLog) < MaxDecodeCalls
  /\ \E result \in {parseRowRaw(text, positions, parserConfig)} :
         /\ parseResult' = result
         /\ decodeLog' = Append(decodeLog,
                                [method |-> "parseRowRaw", text |-> text,
                                 mode |-> "none", result |-> result])
  /\ rawOutput' = text
  /\ mode' = "none"
  /\ parsePc' = "done"
  /\ UNCHANGED <<parserConfig, validatorCalls>>
  /\ UNCHANGED <<codecVars, anVars, orchVars, clientVars, promptVars>>

ShareNext ==
  \/ \E text \in ShareTexts, m \in {"object", "array"} : DecodeOutput(text, m)
  \/ \E text \in ShareTexts : DecodeRow(text)

ShareSpec == ShareInit /\ [][ShareNext]_vars

----------------------------------------------------------------------------
\* positional-zod.ts and providers/index.ts
\*
\* An error is named by its class: "ProviderError", "ParseError",
\* "ValidationError", "SchemaError", or "Error" for a plain Error.  An
\* attempt is one call of completeWithProvider: its provider, its place in
\* providerOrder, the instance getProvider gave it (NoInstance: none) and
\* its status, "pending" while the producer's call is in flight, then "ok"
\* or the class of the error it threw.

ProviderIds == {"openai", "anthropic", "google"}

Invocations == 1..NumInvocations

\* this.providers.get(type) of a type not in the Map.
NoInstance == 0

NoRequest == [provider |-> "undefined", schema |-> ZodObject(<<>>), mode |-> "none"]

IdleInvocation ==
  [pc |-> "idle", method |-> "none", request |-> NoRequest,
   providerOrder |-> <<>>, index |-> 0, attempts |-> <<>>,
   lastError |-> "undefined", outcome |-> "none",
   resultProvider |-> "undefined"]

\* A lookup that never finds an instance.
getNothing(registry, type) == NoInstance

\* this.providers.get(type)
getRegistered(registry, type) == registry[type]

\* createProvider(type, config): TRUE when it returns a new provider, FALSE
\* when it throws because the type has no configuration.
createProvider(type, providerConfig) == type \in providerConfig

\* getProvider(type): get or create; .thrown when createProvider throws.
getProvider(registry, count, type) ==
  LET provider == getRegistered(registry, type)
  IN  IF provider # NoInstance
      THEN [providers |-> registry, created |-> count,
            instance |-> provider, thrown |-> FALSE]
      ELSE IF ~createProvider(type, config.providers)
      THEN [providers |-> registry, created |-> count,
            instance |-> NoInstance, thrown |-> TRUE]
      ELSE [providers |-> [registry EXCEPT ![type] = count[type] + 1],
            created |-> [count EXCEPT ![type] = @ + 1],
            instance |-> count[type] + 1, thrown |-> FALSE]

\* The producer called without the schema having been analyzed.
callProviderUnanalyzed(registry, count, type, request) ==
  LET got == getProvider(registry, count, type)
  IN  [providers |-> got.providers, created |-> got.created,
       instance |-> got.instance,
       status |-> IF got.thrown THEN "Error" ELSE "pending"]

\* completeWithProvider up to its await: getProvider, analyzeSchema, the
\* prompts, the call of providerInstance.complete.  .status is "pending"
\* when the call is in flight, else the error thrown before it.
callProvider(registry, count, type, request) ==
  LET got == getProvider(registry, count, type)
      analysis == analyzeSchema(request.schema)
  IN  [providers |-> got.providers, created |-> got.created,
       instance |-> got.instance,
       status |-> IF got.thrown THEN "Error"
                  ELSE IF analysis.thrown THEN "SchemaError"
                  ELSE "pending"]

\* The conjunct left out: the loop does not wait for a call to settle.
NotAwaited(i) == TRUE

\* `await this.completeWithProvider(p, options)`: the loop goes on only
\* when no call of the invocation is in flight.
Awaited(i) ==
  \A k \in 1..Len(inv[i].attempts) : inv[i].attempts[k].status # "pending"

\* Every error falls back.
isAnyError(error) == TRUE

\* error instanceof ProviderError
isProviderError(error) == error = "ProviderError"

\* The catch block of complete.
catchError(invocation, error) ==
  IF ~isProviderError(error)
  THEN [invocation EXCEPT !.lastError = error, !.pc = "thrown", !.outcome = error]
  ELSE [invocation EXCEPT !.lastError = error, !.index = @ + 1]

Attempt(type, index, instance, status) ==
  [provider |-> type, orderIndex |-> index, instance |-> instance,
   status |-> status]

----------------------------------------------------------------------------
\* Inputs of the orchestrator.

OrchConfig(providerConfig, defaultProvider, fallbackProviders) ==
  [providers |-> providerConfig, defaultProvider |-> defaultProvider,
   fallbackProviders |-> fallbackProviders,
   delimiter |-> <<"|">>, subDelimiter |-> <<";">>, escapeChar |-> <<"\\">>]

\* Configurations the constructor accepts: the default provider is
\* configured, a fallback need not be.
OrchConfigs ==
  { OrchConfig({"openai"}, "openai", <<>>),
    OrchConfig({"openai", "anthropic"}, "openai", <<"anthropic", "google">>),
    OrchConfig({"openai", "anthropic", "google"}, "openai", <<"anthropic", "google">>),
    OrchConfig({"openai", "anthropic"}, "anthropic", <<"openai", "anthropic">>) }

\* z.object({a: string, b: boolean | null}) and z.object({a: z.record()}).
SupportedSchema ==
  ZodObject(<<Field(<<"a">>, ZodString), Field(<<"b">>, ZodNullable(ZodBoolean))>>)
UnsupportedSchema ==
  ZodObject(<<Field(<<"a">>, Node("ZodRecord", <<>>, <<>>))>>)

Requests ==
  { [provider |-> "undefined", schema |-> SupportedSchema, mode |-> "object"],
    [provider |-> "google", schema |-> SupportedSchema, mode |-> "array"],
    [provider |-> "anthropic", schema |-> SupportedSchema, mode |-> "object"],
    [provider |-> "undefined", schema |-> UnsupportedSchema, mode |-> "object"] }

\* What a producer's call settles with: a failure (ProviderError) or a text
\* that decodes and validates, that has too few columns, or that leaves the
\* second field undefined.
ProviderReplies ==
  { [failed |-> TRUE, content |-> <<>>],
    [failed |-> FALSE, content |-> <<"x", "|", "y">>],
    [failed |-> FALSE, content |-> <<"x">>],
    [failed |-> FALSE, content |-> <<"x", "|">>] }

OrchInit ==
  /\ config \in OrchConfigs
  /\ providers = [type \in ProviderIds |-> NoInstance]
  /\ created = [type \in ProviderIds |-> 0]
  /\ inv = [i \in Invocations |-> IdleInvocation]
  /\ CodecIdle /\ AnIdle /\ ParseIdle /\ ClientIdle /\ PromptIdle

\* A provider order that leaves the primary among the fallbacks.
providerOrderKeepingPrimary(provider, fallbackProviders) ==
  <<provider>> \o fallbackProviders

\* [provider, ...fallbackProviders.filter((p) => p !== provider)]
providerOrder(provider, fallbackProviders) ==
  <<provider>> \o SelectSeq(fallbackProviders, LAMBDA type : type # provider)

\* complete(options) up to its loop.
Complete(i, request) ==
  /\ inv[i].pc = "idle"
  /\ LET provider == IF request.provider # "undefined" THEN request.provider
                     ELSE config.defaultProvider
     IN  inv' = [inv EXCEPT ![i] =
                   [@ EXCEPT !.pc = "loop", !.method = "complete",
                             !.request = request,
                             !.providerOrder =
                               providerOrder(provider, config.fallbackProviders),
                             !.index = 1]]
  /\ UNCHANGED <<config, providers, created>>
  /\ UNCHANGED <<codecVars, anVars, parseVars, clientVars, promptVars>>

\* The loop meets a provider without configuration: continue.
LoopSkip(i) ==
  /\ inv[i].pc = "loop"
  /\ Awaited(i)
  /\ inv[i].index <= Len(inv[i].providerOrder)
  /\ inv[i].providerOrder[inv[i].index] \notin config.providers
  /\ inv' = [inv EXCEPT ![i].index = @ + 1]
  /\ UNCHANGED <<config, providers, created>>
  /\ UNCHANGED <<codecVars, anVars, parseVars, clientVars, promptVars>>

\* The loop calls completeWithProvider(p, options); an error thrown before
\* the producer is called reaches the catch block.  (The loop body runs at
\* most once for each entry of providerOrder.)
LoopAttempt(i) ==
  /\ inv[i].pc = "loop"
  /\ Awaited(i)
  /\ inv[i].index <= Len(inv[i].providerOrder)
  /\ inv[i].providerOrder[inv[i].index] \in config.providers
  /\ Len(inv[i].attempts) < Len(inv[i].providerOrder)
  /\ LET type == inv[i].providerOrder[inv[i].index]
         call == callProvider(providers, created, type, inv[i].request)
         attempted == [inv[i] EXCEPT !.attempts =
                         Append(@, Attempt(type, inv[i].index, call.instance,
                                           call.status))]
     IN  /\ providers' = call.providers
         /\ created' = call.created
         /\ inv' = [inv EXCEPT ![i] =
                      IF call.status = "pending" THEN attempted
                      ELSE catchError(attempted, call.status)]
  /\ UNCHANGED config
  /\ UNCHANGED <<codecVars, anVars, parseVars, clientVars, promptVars>>

\* The loop is over: throw lastError ?? new Error("All providers failed").
LoopExhausted(i) ==
  /\ inv[i].pc = "loop"
  /\ Awaited(i)
  /\ inv[i].index > Len(inv[i].providerOrder)
  /\ inv' = [inv EXCEPT ![i] =
               [@ EXCEPT !.pc = "thrown",
                         !.outcome = IF inv[i].lastError # "undefined"
                                     THEN inv[i].lastError ELSE "Error"]]
  /\ UNCHANGED <<config, providers, created>>
  /\ UNCHANGED <<codecVars, anVars, parseVars, clientVars, promptVars>>

\* completeWithProvider(type, options) called by the user, up to its await.
CompleteWithProvider(i, type, request) ==
  /\ inv[i].pc = "idle"
  /\ LET call == callProvider(providers, created, type, request)
     IN  /\ providers' = call.providers
         /\ created' = call.created
         /\ inv' = [inv EXCEPT ![i] =
                      [@ EXCEPT !.method = "completeWithProvider",
                                !.request = request,
                                !.providerOrder = <<type>>, !.index = 1,
                                !.attempts = <<Attempt(type, 1, call.instance,
                                                       call.status)>>,
                                !.pc = IF call.status = "pending" THEN "called"
                                       ELSE "thrown",
                                !.outcome = IF call.status = "pending" THEN "none"
                                            ELSE call.status]]
  /\ UNCHANGED config
  /\ UNCHANGED <<codecVars, anVars, parseVars, clientVars, promptVars>>

\* completeWithProvider after its await: the producer's error, or what
\* parsePositionalOutput makes of the text it returned.
responseStatus(reply, request, cfg) ==
  IF reply.failed THEN "ProviderError"
  ELSE parsePositionalOutput(reply.content,
         analyzeSchema(request.schema).positions, request.schema,
         [delimiter |-> cfg.delimiter, subDelimiter |-> cfg.subDelimiter,
          escapeChar |-> cfg.escapeChar],
         request.mode).result.kind

\* The invocation once attempt k has ended with status: completeWithProvider
\* returns or throws, and complete returns, falls back or throws.
settleAttempt(invocation, k, status) ==
  LET settled == [invocation EXCEPT !.attempts[k].status = status]
  IN  IF status = "ok"
      THEN [settled EXCEPT !.pc = "returned", !.outcome = "ok",
                           !.resultProvider = invocation.attempts[k].provider]
      ELSE IF invocation.method = "complete"
      THEN catchError(settled, status)
      ELSE [settled EXCEPT !.pc = "thrown", !.outcome = status]

\* The producer's call of a pending attempt settles.
Settle(i, reply) ==
  /\ inv[i].pc \in {"loop", "called"}
  /\ \E k \in 1..Len(inv[i].attempts) :
       /\ inv[i].attempts[k].status = "pending"
       /\ inv' = [inv EXCEPT ![i] =
                    settleAttempt(inv[i], k,
                                  responseStatus(reply, inv[i].request, config))]
  /\ UNCHANGED <<config, providers, created>>
  /\ UNCHANGED <<codecVars, anVars, parseVars, clientVars, promptVars>>

OrchNext ==
  \E i \in Invocations :
    \/ \E request \in Requests : Complete(i, request)
    \/ LoopSkip(i)
    \/ LoopAttempt(i)
    \/ LoopExhausted(i)
    \/ \E type \in {"openai", "google"}, request \in Requests :
         CompleteWithProvider(i, type, request)
    \/ \E reply \in ProviderReplies : Settle(i, reply)

OrchSpec == OrchInit /\ [][OrchNext]_vars

----------------------------------------------------------------------------
\* The paths of the leaves of a schema in depth-first order: a nested object
\* is expanded in place, a wrapper stands for what it wraps, every other
\* field (an array included) is one leaf.  FieldsOf gives the order of the
\* fields of an object.

RECURSIVE leafPaths(_, _, _)
RECURSIVE fieldLeafPaths(_, _, _, _)

fieldLeafPaths(entries, k, path, declared) ==
  IF k > Len(entries) THEN <<>>
  ELSE leafPaths(entries[k].value, nestedPath(path, entries[k].key), declared)
         \o fieldLeafPaths(entries, k + 1, path, declared)

leafPaths(node, path, declared) ==
  IF node.typeName = "ZodObject"
  THEN fieldLeafPaths(IF declared THEN node.shape ELSE ObjectEntries(node.shape),
                      1, path, declared)
  ELSE IF node.typeName \in {"ZodOptional", "ZodNullable", "ZodDefault"}
  THEN leafPaths(node.inner[1], path, declared)
  ELSE <<path>>

\* Leaves in the order the schema declares its fields.
DeclaredLeafPaths(s) == leafPaths(s, <<>>, TRUE)
\* Leaves in the property order of each object (Object.entries).
PropertyOrderLeafPaths(s) == leafPaths(s, <<>>, FALSE)

PathsOf(ps) == [i \in 1..Len(ps) |-> ps[i].path]

HasNestedObject(s) == \E k \in 1..Len(s.shape) : s.shape[k].value.typeName = "ZodObject"

----------------------------------------------------------------------------
\* The rows of the raw output and their segment counts.

ParseDone == parsePc = "done"

Rows == cleanAndSplitRows(rawOutput)

SegmentCount(row) ==
  Len(splitWithEscape(row, parserConfig.delimiter, parserConfig.escapeChar))

\* The indices of the rows whose segment count is not the Position List length.
Mismatching ==
  {i \in 0..(Len(Rows) - 1) : SegmentCount(At(Rows, i)) # Len(positions)}

FirstMismatching == CHOOSE i \in Mismatching : \A j \in Mismatching : i <= j

\* C4: decoding a row whose segment count differs from the Position List
\* length raises ParseError with expectedColumns the Position List length,
\* actualColumns the row's segment count and rowIndex the row's index, and
\* returns no record; an output with such a row ends with the ParseError of
\* its first such row.
ColumnMismatchRaisesParseError ==
  ParseDone =>
    /\ \A i \in Mismatching :
         LET thrown == parseRow(At(Rows, i), positions, parserConfig, i)
         IN  /\ thrown.kind = "ParseError"
             /\ thrown.expectedColumns = Len(positions)
             /\ thrown.actualColumns = SegmentCount(At(Rows, i))
             /\ thrown.rowIndex = i
             /\ thrown.data = <<>>
    /\ Mismatching # {} =>
         /\ parseResult.kind = "ParseError"
         /\ parseResult.expectedColumns = Len(positions)
         /\ parseResult.actualColumns = SegmentCount(At(Rows, FirstMismatching))
         /\ parseResult.rowIndex = FirstMismatching
         /\ parseResult.data = <<>>

\* The second row has more columns than the Position List.
SecondRowTooLong ==
  /\ ParseDone
  /\ Mismatching # {}
  /\ parseResult.kind = "ParseError"
  /\ parseResult.rowIndex = 1
  /\ parseResult.actualColumns > parseResult.expectedColumns
  /\ parseResult.expectedColumns > 0

IsBlankInput(raw) == \A i \in 1..Len(raw) : IsWhiteSpace(raw[i])

\* C5: an input that is empty, only white space or only blank lines raises
\* ParseError with actualColumns 0 and expectedColumns the Position List
\* length, in either mode, and the validator is not called.
BlankInputRaisesParseError ==
  (ParseDone /\ IsBlankInput(rawOutput)) =>
    /\ parseResult.kind = "ParseError"
    /\ parseResult.actualColumns = 0
    /\ parseResult.expectedColumns = Len(positions)
    /\ parseResult.data = <<>>
    /\ validatorCalls = <<>>

\* Blank lines and white space only, array mode, a schema with columns.
BlankLinesRejected ==
  /\ ParseDone
  /\ mode = "array"
  /\ IsBlankInput(rawOutput)
  /\ Len(split(rawOutput, <<"\n">>)) = 3
  /\ \E i \in 1..Len(rawOutput) : rawOutput[i] = " "
  /\ Len(positions) = 2
  /\ parseResult.kind = "ParseError"

\* What the first row gives when it is the whole output.
FirstRowAlone ==
  parsePositionalOutput(At(Rows, 0), positions, schema, parserConfig, "object").result

ExpectedWarning(n) ==
  <<"Expected single object but got ", ToString(n), " rows. Using first row.">>

\* C6 as stated: in object mode, N > 1 non-blank lines of which the first
\* decodes and validates give the first line's record and exactly one
\* warning, whatever the other lines hold.
SingleModeKeepsFirstRow ==
  (ParseDone /\ mode = "object" /\ Len(Rows) > 1 /\ FirstRowAlone.kind = "ok") =>
    /\ parseResult.kind = "ok"
    /\ parseResult.data = FirstRowAlone.data
    /\ parseResult.warnings = <<ExpectedWarning(Len(Rows))>>

\* C6: in object mode, N > 1 non-blank lines of which the first decodes and
\* validates give the first line's record and exactly one warning, the other
\* records being discarded without validation, provided every line has the
\* Position List's column count; otherwise the first line with another
\* column count raises ParseError.
SingleModeKeepsFirstRowOfWellFormedRows ==
  (ParseDone /\ mode = "object" /\ Len(Rows) > 1 /\ FirstRowAlone.kind = "ok") =>
    IF Mismatching = {}
    THEN /\ parseResult.kind = "ok"
         /\ parseResult.data = FirstRowAlone.data
         /\ parseResult.warnings = <<ExpectedWarning(Len(Rows))>>
         /\ validatorCalls = <<0>>
    ELSE /\ parseResult.kind = "ParseError"
         /\ parseResult.rowIndex = FirstMismatching
         /\ parseResult.rowIndex >= 1
         /\ validatorCalls = <<>>

\* Three rows in object mode, the second of which would not validate.
FirstOfThreeRowsKept ==
  /\ ParseDone
  /\ mode = "object"
  /\ Len(Rows) = 3
  /\ parseResult.kind = "ok"
  /\ Len(parseResult.warnings) = 1
  /\ Mismatching = {}
  /\ validateWithZod(schema,
       parseRow(At(Rows, 1), positions, parserConfig, 1).data[1], 1).kind
       = "ValidationError"

IsBlankLine(line) == \A i \in 1..Len(line) : IsWhiteSpace(line[i])

NonBlankLines(raw) ==
  SelectSeq(split(raw, <<"\n">>), LAMBDA line : ~IsBlankLine(line))

\* C7: in array mode a successful decode returns one record per non-blank
\* line, record i decoded from the i-th non-blank line, and no warning;
\* blank lines give no record.
ArrayModeOneRecordPerLine ==
  (ParseDone /\ mode = "array" /\ parseResult.kind = "ok") =>
    LET lines == NonBlankLines(rawOutput)
    IN  /\ Len(parseResult.data) = Len(lines)
        /\ \A i \in 1..Len(lines) :
             <<parseResult.data[i]>> =
               parseRow(trim(lines[i]), positions, parserConfig, i - 1).data
        /\ parseResult.warnings = <<>>

\* Two different records decoded from three lines, one of them blank.
TwoRecordsFromThreeLines ==
  /\ ParseDone
  /\ mode = "array"
  /\ parseResult.kind = "ok"
  /\ Len(split(rawOutput, <<"\n">>)) = 3
  /\ Len(parseResult.data) = 2
  /\ parseResult.data[1] # parseResult.data[2]
  /\ validatorCalls = <<0, 1>>

----------------------------------------------------------------------------
\* The invocations of complete.

Completing == {i \in Invocations : inv[i].method = "complete"}

CodecErrors == {"ParseError", "ValidationError", "SchemaError"}

\* An attempt that failed with a ParseError, ValidationError or SchemaError
\* is the last one, and its error is what complete threw.
CodecErrorsPropagate ==
  \A i \in Completing :
    \A k \in 1..Len(inv[i].attempts) :
      inv[i].attempts[k].status \in CodecErrors =>
        /\ k = Len(inv[i].attempts)
        /\ inv[i].pc = "thrown"
        /\ inv[i].outcome = inv[i].attempts[k].status

\* C8 as stated: a provider that is not the primary one is attempted only
\* right after an attempt that failed with ProviderError, and an attempt
\* that fails with a ParseError, ValidationError or SchemaError ends the
\* invocation with that error.
FallbackOnlyAfterProviderError ==
  /\ \A i \in Completing :
       \A k \in 1..Len(inv[i].attempts) :
         inv[i].attempts[k].orderIndex > 1 =>
           /\ k > 1
           /\ inv[i].attempts[k - 1].status = "ProviderError"
  /\ CodecErrorsPropagate

\* C8: a provider is attempted only when every entry before it in the
\* provider order was skipped for want of configuration or was attempted
\* and failed with ProviderError, so every attempt after the first follows
\* one that failed with ProviderError; an attempt that fails with a
\* ParseError, ValidationError or SchemaError ends the invocation with that
\* error and no further provider is attempted.
FallbackOnlyAfterProviderErrorOrSkip ==
  /\ \A i \in Completing :
       \A k \in 1..Len(inv[i].attempts) :
         /\ k > 1 => inv[i].attempts[k - 1].status = "ProviderError"
         /\ \A j \in 1..(inv[i].attempts[k].orderIndex - 1) :
              \/ inv[i].providerOrder[j] \notin config.providers
              \/ \E m \in 1..(k - 1) :
                   /\ inv[i].attempts[m].orderIndex = j
                   /\ inv[i].attempts[m].status = "ProviderError"
  /\ CodecErrorsPropagate

\* The primary provider was skipped, the first fallback failed with
\* ProviderError, the second threw a ValidationError.
ValidationErrorEndsFallback ==
  \E i \in Completing :
    /\ Len(inv[i].attempts) = 2
    /\ inv[i].attempts[1].orderIndex = 2
    /\ inv[i].attempts[1].status = "ProviderError"
    /\ inv[i].attempts[2].status = "ValidationError"
    /\ inv[i].pc = "thrown"

\* C9: within one invocation of complete at most one producer call is in
\* flight, every attempt but the last has settled, and none of them with
\* success.
SequentialProducerCalls ==
  \A i \in Completing :
    /\ Cardinality({k \in 1..Len(inv[i].attempts) :
                      inv[i].attempts[k].status = "pending"}) <= 1
    /\ \A k \in 1..(Len(inv[i].attempts) - 1) :
         inv[i].attempts[k].status \notin {"pending", "ok"}

\* Two invocations of complete, each with a call in flight, one of them on
\* its second provider.
FallbackCallInFlight ==
  \E i \in Completing, j \in Completing :
    /\ i # j
    /\ Len(inv[i].attempts) = 2
    /\ inv[i].attempts[2].status = "pending"
    /\ Len(inv[j].attempts) = 1
    /\ inv[j].attempts[1].status = "pending"

\* C10: createProvider builds at most one instance for a provider
\* identifier, and every attempt on that provider, by complete or by
\* completeWithProvider, is given that instance.
OneInstancePerProvider ==
  /\ \A type \in ProviderIds : created[type] <= 1
  /\ \A i \in Invocations :
       \A k \in 1..Len(inv[i].attempts) :
         inv[i].attempts[k].instance # NoInstance =>
           /\ inv[i].attempts[k].instance = 1
           /\ providers[inv[i].attempts[k].provider] = 1

\* complete and completeWithProvider, interleaved, with calls in flight on
\* the same provider instance.
InstanceShared ==
  \E i \in Invocations, j \in Invocations :
    /\ inv[i].method = "complete"
    /\ inv[j].method = "completeWithProvider"
    /\ inv[i].attempts # <<>> /\ inv[j].attempts # <<>>
    /\ inv[i].attempts[1].provider = inv[j].attempts[1].provider
    /\ inv[i].attempts[1].status = "pending"
    /\ inv[j].attempts[1].status = "pending"
    /\ inv[i].attempts[1].instance = 1
    /\ inv[j].attempts[1].instance = 1
    /\ created[inv[i].attempts[1].provider] = 1

\* C2: unescape(escape(s, d, e), d, e) = s for every string s, delimiter d
\* and escape character e.
RoundTrip == codecPc = "done" => unescaped = str

\* C3: escaping each segment, joining the escaped segments with the
\* delimiter and splitting the row gives the original list of segments.
SplitJoinRoundTrip == codecPc = "done" => splitResult = segments

----------------------------------------------------------------------------
\* Unsupported nodes of a schema.

UnsupportedTypeNames ==
  {"ZodRecord", "ZodMap", "ZodSet", "ZodFunction", "ZodLazy", "ZodPromise"}

RECURSIVE HasUnsupportedNode(_)
\* The tree of the node holds a node of an unsupported kind: the node
\* itself, what a wrapper or an array wraps, or a field of an object.
HasUnsupportedNode(node) ==
  \/ node.typeName \in UnsupportedTypeNames
  \/ \E k \in 1..Len(node.inner) : HasUnsupportedNode(node.inner[k])
  \/ \E k \in 1..Len(node.shape) : HasUnsupportedNode(node.shape[k].value)

\* C11: a schema with a node of an unsupported kind anywhere in its tree,
\* the item of an array included, makes analyzeSchema throw a SchemaError
\* that carries an unsupported type name, and no Position List is returned.
UnsupportedNodeRaisesSchemaError ==
  (anPc \in {"returned", "thrown"} /\ HasUnsupportedNode(schema)) =>
    /\ anPc = "thrown"
    /\ schemaError.typeName \in UnsupportedTypeNames
    /\ positions = <<>>

----------------------------------------------------------------------------
\* Invocations with a schema analyzeSchema rejects.

Started == {i \in Invocations : inv[i].method # "none"}

Finished(i) == inv[i].pc \in {"returned", "thrown"}

RejectedSchema(i) == analyzeSchema(inv[i].request.schema).thrown

\* No attempt of the invocation got as far as calling its producer, and at
\* most one attempt was made.
NoProducerCalled(i) ==
  /\ Len(inv[i].attempts) <= 1
  /\ \A k \in 1..Len(inv[i].attempts) :
       inv[i].attempts[k].status \in {"SchemaError", "Error"}

SomeProviderConfigured(i) ==
  \E j \in 1..Len(inv[i].providerOrder) :
    inv[i].providerOrder[j] \in config.providers

\* C12 as stated: an invocation with a schema that analysis rejects calls no
\* producer, attempts no fallback, and ends with SchemaError.
SchemaErrorBeforeAnyCall ==
  \A i \in Started :
    RejectedSchema(i) =>
      /\ NoProducerCalled(i)
      /\ Finished(i) => inv[i].outcome = "SchemaError"

\* C12: an invocation with a schema that analysis rejects calls no producer
\* and attempts no fallback; it ends with SchemaError, thrown by its first
\* attempt, when a provider of its order is configured, and with a plain
\* Error when none is.
SchemaErrorBeforeAnyCallWhenConfigured ==
  \A i \in Started :
    RejectedSchema(i) =>
      /\ NoProducerCalled(i)
      /\ Finished(i) =>
           IF SomeProviderConfigured(i)
           THEN /\ inv[i].outcome = "SchemaError"
                /\ Len(inv[i].attempts) = 1
                /\ inv[i].attempts[1].status = "SchemaError"
           ELSE inv[i].outcome = "Error"

\* complete threw SchemaError on its first provider and left a configured
\* fallback untried, while the other invocation has a call in flight.
SchemaErrorLeavesFallbackUntried ==
  \E i \in Completing, j \in Started :
    /\ i # j
    /\ RejectedSchema(i)
    /\ inv[i].pc = "thrown"
    /\ inv[i].outcome = "SchemaError"
    /\ Len(inv[i].providerOrder) >= 2
    /\ inv[i].providerOrder[2] \in config.providers
    /\ Len(inv[i].attempts) = 1
    /\ Len(inv[j].attempts) = 1
    /\ inv[j].attempts[1].status = "pending"

----------------------------------------------------------------------------
\* The record a row stands for, read off the schema's object structure.

RECURSIVE leafParts(_, _)
RECURSIVE fieldLeafParts(_, _, _)

fieldLeafParts(entries, k, parts) ==
  IF k > Len(entries) THEN <<>>
  ELSE leafParts(entries[k].value, Append(parts, entries[k].key))
         \o fieldLeafParts(entries, k + 1, parts)

\* For each leaf of the schema, in analysis order, the field names from the
\* root object down to it.
leafParts(node, parts) ==
  IF node.typeName = "ZodObject"
  THEN fieldLeafParts(ObjectEntries(node.shape), 1, parts)
  ELSE IF node.typeName \in {"ZodOptional", "ZodNullable", "ZodDefault"}
  THEN leafParts(node.inner[1], parts)
  ELSE <<parts>>

\* What parseRow makes of the segment of a position.
DecodedValue(rawValue, position, cfg) ==
  LET coerced == coerceValue(rawValue, position.type, cfg)
  IN  IF position.nullable /\ toLowerCase(rawValue) = <<"n", "u", "l", "l">>
      THEN Null
      ELSE IF position.type = "array" /\ coerced.t = "array"
              /\ position.arrayItemType # "undefined"
      THEN ArrayValue(coerceArrayItems(coerced.v, position.arrayItemType, cfg))
      ELSE coerced

\* The record with, for the k-th leaf of the schema, the decoded k-th
\* segment under the leaf's field names, and nothing else.
StructuralRecord(s, ps, values, cfg) ==
  LET leaves == leafParts(s, <<>>)
  IN  {[parts |-> leaves[k], value |-> DecodedValue(values[k], ps[k], cfg)] :
         k \in 1..Len(leaves)}

SegmentsOf(row) ==
  splitWithEscape(row, parserConfig.delimiter, parserConfig.escapeChar)

\* C13: a row with the right column count decodes to the record that has
\* each entry's value at the place of its leaf in the schema's object
\* structure, same nesting and field names, and no other key.
DecodingInvertsFlattening ==
  ParseDone =>
    /\ \A i \in 0..(Len(Rows) - 1) :
         i \notin Mismatching =>
           parseRow(At(Rows, i), positions, parserConfig, i).data =
             <<StructuralRecord(schema, positions, SegmentsOf(At(Rows, i)),
                                parserConfig)>>
    /\ parseResult.kind = "ok" =>
         \A k \in 1..Len(parseResult.data) :
           parseResult.data[k] =
             StructuralRecord(schema, positions, SegmentsOf(At(Rows, k - 1)),
                              parserConfig)

----------------------------------------------------------------------------
\* getSchemaPositionMap: Object.fromEntries over the Position List of the
\* schema, so that a later entry replaces an earlier one with the same path.
getSchemaPositionMap(s) ==
  LET ps == analyzeSchema(s).positions
  IN  [p \in {ps[k].path : k \in 1..Len(ps)} |->
         LET last == CHOOSE k \in 1..Len(ps) :
                       /\ ps[k].path = p
                       /\ \A j \in (k + 1)..Len(ps) : ps[j].path # p
         IN  ps[last]]

\* C14: no two entries of the Position List of a schema share a path, and
\* the position map of the schema has exactly one key per entry.
PathsAreUnique ==
  (~analyzeSchema(schema).thrown /\ positions = analyzeSchema(schema).positions)
    =>
    /\ \A j, k \in 1..Len(positions) :
         j # k => positions[j].path # positions[k].path
    /\ Cardinality(DOMAIN getSchemaPositionMap(schema)) = Len(positions)
----------------------------------------------------------------------------
\* Empty segments and null (parseRowRaw).

FieldKinds ==
  {"string", "number", "boolean", "date", "enum", "literal", "array", "json"}

RowDecoded == parsePc = "done" /\ parseResult.kind = "ok"

RowSegments == SegmentsOf(rawOutput)

\* The entries whose segment is the empty string.
EmptyEntries == {k \in 1..Len(positions) : RowSegments[k] = <<>>}

PathParts(k) == split(positions[k].path, <<".">>)

Overwriters(k) ==
  {j \in (k + 1)..Len(positions) :
     IsPrefix(PathParts(j), PathParts(k)) \/ IsPrefix(PathParts(k), PathParts(j))}

IsNullToken(segment) ==
  /\ Len(segment) = 4
  /\ segment[1] \in {"n", "N"} /\ segment[2] \in {"u", "U"}
  /\ segment[3] \in {"l", "L"} /\ segment[4] \in {"l", "L"}

NullEntries == {k \in 1..Len(positions) : IsNullToken(RowSegments[k])}

\* What coercion alone makes of the segment of entry k.
NormalCoercion(k) ==
  LET coerced == coerceValue(RowSegments[k], positions[k].type, parserConfig)
  IN  IF positions[k].type = "array" /\ coerced.t = "array"
         /\ positions[k].arrayItemType # "undefined"
      THEN ArrayValue(coerceArrayItems(coerced.v, positions[k].arrayItemType,
                                       parserConfig))
      ELSE coerced

Holds(k, value) == [parts |-> PathParts(k), value |-> value] \in parseResult.data[1]

\* C16 as stated: a nullable entry whose segment is null in any case decodes
\* to null whatever its kind; a non-nullable entry with the same segment
\* decodes by normal coercion and never to null.
NullOnlyForNullable ==
  RowDecoded =>
    \A k \in NullEntries :
      Overwriters(k) = {} =>
        IF positions[k].nullable THEN Holds(k, Null)
        ELSE Holds(k, NormalCoercion(k)) /\ ~Holds(k, Null)

\* C16: a nullable entry whose segment is null in any case decodes to null
\* whatever its kind; a non-nullable entry with the same segment decodes by
\* normal coercion, which gives null exactly for a json entry whose segment
\* is the lower-case null.
NullOnlyForNullableOrJson ==
  RowDecoded =>
    \A k \in NullEntries :
      Overwriters(k) = {} =>
        IF positions[k].nullable THEN Holds(k, Null)
        ELSE /\ Holds(k, NormalCoercion(k))
             /\ Holds(k, Null) <=>
                  /\ positions[k].type = "json"
                  /\ RowSegments[k] = <<"n", "u", "l", "l">>

\* A null in mixed case has been decoded to null for a nullable number
\* entry.
MixedCaseNullDecoded ==
  /\ RowDecoded
  /\ \E k \in NullEntries :
       /\ positions[k].nullable
       /\ positions[k].type = "number"
       /\ RowSegments[k] # <<"n", "u", "l", "l">>
       /\ Holds(k, Null)

----------------------------------------------------------------------------
\* The split of a string, described position by position (SplitSpec).

SplitDone == codecPc = "done" /\ splitResult # NoVal /\ str # NoVal

Indices == 0..(Len(str) - 1)

\* The number of escape characters in a row just before index i.
EscapesBefore(i) ==
  Cardinality({k \in 1..i : \A m \in (i - k)..(i - 1) : <<At(str, m)>> = escapeChar})

\* Index i holds the escape character of an escape pair: it is followed by
\* the delimiter or the escape character, and is not itself the second
\* character of a pair.
IsPairStart(i) ==
  /\ i \in Indices /\ i + 1 \in Indices
  /\ <<At(str, i)>> = escapeChar
  /\ (<<At(str, i + 1)>> = delimiter \/ <<At(str, i + 1)>> = escapeChar)
  /\ EscapesBefore(i) % 2 = 0

PairStarts == {i \in Indices : IsPairStart(i)}

\* Escape characters outside every pair.
LoneEscapes ==
  {i \in Indices : /\ <<At(str, i)>> = escapeChar
                   /\ i \notin PairStarts /\ (i - 1) \notin PairStarts}

\* Occurrences of a one-character delimiter outside every pair.
FreeDelimiters ==
  {i \in Indices : /\ <<At(str, i)>> = delimiter
                   /\ i \notin PairStarts /\ (i - 1) \notin PairStarts}

\* The characters of a set of indices, in index order.
CharsAt(idx) ==
  [k \in 1..Cardinality(idx) |->
     At(str, CHOOSE i \in idx : Cardinality({x \in idx : x < i}) = k - 1)]

\* The segments when the string is cut at the indices of cuts and the first
\* character of every pair is dropped.
CutAt(cuts) ==
  [j \in 1..(Cardinality(cuts) + 1) |->
     CharsAt({i \in Indices : /\ i \notin cuts /\ i \notin PairStarts
                              /\ Cardinality({c \in cuts : c < i}) = j - 1})]

PairsBlanked ==
  [k \in 1..Len(str) |->
     IF (k - 1) \in PairStarts \/ (k - 2) \in PairStarts THEN "#" ELSE str[k]]

\* The number of delimiter occurrences, counted from the left without
\* overlap, that no escape pair has consumed.
UnconsumedDelimiters == Len(split(PairsBlanked, delimiter)) - 1

HasDelimiter ==
  \E i \in Indices : substring(str, i, i + Len(delimiter)) = delimiter

\* C18: the result of splitWithEscape is never empty, has one segment more
\* than there are delimiter occurrences outside escape pairs, is a single
\* segment when the input holds no delimiter, and is one empty segment for
\* the empty input.
FinalSegmentAlwaysEmitted ==
  SplitDone =>
    /\ Len(splitResult) >= 1
    /\ Len(splitResult) = 1 + UnconsumedDelimiters
    /\ ~HasDelimiter => Len(splitResult) = 1
    /\ str = <<>> => splitResult = << <<>> >>

\* A string that ends with a delimiter, after an escape pair, has been split:
\* the last of its segments is empty.
EmptyFinalSegmentEmitted ==
  /\ SplitDone
  /\ PairStarts # {}
  /\ UnconsumedDelimiters = 2
  /\ Len(splitResult) = 3
  /\ splitResult[3] = <<>>

----------------------------------------------------------------------------
\* Validation failures (ParseSpec).

\* The record decoded from row i.
DecodedRow(i) == parseRow(At(Rows, i), positions, parserConfig, i).data[1]

\* The rows handed to the validator when every row decodes: the first one
\* in object mode, all of them in array mode.
ValidatedRows ==
  IF mode = "object" THEN {0} \cap (0..(Len(Rows) - 1)) ELSE 0..(Len(Rows) - 1)

InvalidRows == {i \in ValidatedRows : ~safeParse(schema, DecodedRow(i))}

FirstInvalid == CHOOSE i \in InvalidRows : \A j \in InvalidRows : i <= j

\* C19: when a decoded record fails validation, the call raises
\* ValidationError with the validator's issues, the decoded record of that
\* row and that row's index among the non-blank lines (0 in object mode),
\* and returns no record, those of earlier valid rows included.
InvalidRowRaisesValidationError ==
  (ParseDone /\ Mismatching = {} /\ InvalidRows # {}) =>
    /\ parseResult.kind = "ValidationError"
    /\ parseResult.zodError = safeParseIssues(schema, DecodedRow(FirstInvalid))
    /\ parseResult.zodError # {}
    /\ parseResult.parsedData = DecodedRow(FirstInvalid)
    /\ parseResult.rowIndex = FirstInvalid
    /\ mode = "object" => parseResult.rowIndex = 0
    /\ <<parseResult.parsedData>> =
         parseRow(trim(At(NonBlankLines(rawOutput), parseResult.rowIndex)),
                  positions, parserConfig, parseResult.rowIndex).data
    /\ parseResult.data = <<>>

\* In array mode the second of three rows has failed validation after the
\* first one passed.
SecondRowInvalid ==
  /\ ParseDone /\ mode = "array"
  /\ Len(Rows) = 3
  /\ parseResult.kind = "ValidationError"
  /\ parseResult.rowIndex = 1
  /\ safeParse(schema, DecodedRow(0))
  /\ validatorCalls = <<0, 1>>

----------------------------------------------------------------------------
\* Shared inputs of the decode calls (ShareSpec).

\* Two calls of the same function on the same text (and mode) have given the
\* same result.
SameTextSameResult ==
  \A j, k \in 1..Len(decodeLog) :
    (/\ decodeLog[j].method = decodeLog[k].method
     /\ decodeLog[j].text = decodeLog[k].text
     /\ decodeLog[j].mode = decodeLog[k].mode)
      => decodeLog[j].result = decodeLog[k].result

----------------------------------------------------------------------------
\* Wrappers above the leaves of a schema (AnSpec).

RECURSIVE leafWrappers(_, _)
RECURSIVE fieldLeafWrappers(_, _, _)

fieldLeafWrappers(entries, k, above) ==
  IF k > Len(entries) THEN <<>>
  ELSE leafWrappers(entries[k].value, above)
         \o fieldLeafWrappers(entries, k + 1, above)

\* For each leaf of the schema, in analysis order, the type names of the
\* wrappers on the way from the root down to it.
leafWrappers(node, above) ==
  IF node.typeName = "ZodObject"
  THEN fieldLeafWrappers(ObjectEntries(node.shape), 1, above)
  ELSE IF node.typeName \in {"ZodOptional", "ZodNullable", "ZodDefault"}
  THEN leafWrappers(node.inner[1], above \cup {node.typeName})
  ELSE <<above>>

\* C21: a wrapper takes no position, and an entry is optional exactly when
\* its leaf lies beneath an Optional wrapper (directly, through other
\* wrappers or through nested objects) and nullable exactly when it lies
\* beneath a Nullable wrapper.
WrapperFlagsReachEveryLeaf ==
  anPc = "returned" =>
    LET above == leafWrappers(schema, {})
    IN  /\ Len(positions) = Len(above)
        /\ \A k \in 1..Len(positions) :
             /\ positions[k].position = k - 1
             /\ positions[k].optional = ("ZodOptional" \in above[k])
             /\ positions[k].nullable = ("ZodNullable" \in above[k])

\* A field of an object that is wrapped in Optional or Nullable has been
\* analyzed.
WrappedObjectFieldAnalyzed ==
  /\ anPc = "returned"
  /\ \E k \in 1..Len(schema.shape) :
       /\ schema.shape[k].value.typeName \in {"ZodOptional", "ZodNullable"}
       /\ schema.shape[k].value.inner[1].typeName = "ZodObject"
  /\ \E k \in 1..Len(positions) :
       positions[k].optional \/ positions[k].nullable

----------------------------------------------------------------------------
\* Array fields (AnSpec).

RECURSIVE leafNodes(_)
RECURSIVE fieldLeafNodes(_, _)

fieldLeafNodes(entries, k) ==
  IF k > Len(entries) THEN <<>>
  ELSE leafNodes(entries[k].value) \o fieldLeafNodes(entries, k + 1)

\* The leaves of the schema in analysis order, each as its schema node.
leafNodes(node) ==
  IF node.typeName = "ZodObject"
  THEN fieldLeafNodes(ObjectEntries(node.shape), 1)
  ELSE IF node.typeName \in {"ZodOptional", "ZodNullable", "ZodDefault"}
  THEN leafNodes(node.inner[1])
  ELSE <<node>>

RECURSIVE Unwrapped(_)
\* The node beneath the Optional, Nullable and Default wrappers of a node.
Unwrapped(node) ==
  IF node.typeName \in {"ZodOptional", "ZodNullable", "ZodDefault"}
  THEN Unwrapped(node.inner[1])
  ELSE node

\* The kind a node has as a field of an object: that of the node beneath
\* its wrappers.
FieldKindOf(node) ==
  LET typeName == Unwrapped(node).typeName
  IN  CASE typeName = "ZodString" -> "string"
        [] typeName = "ZodNumber" -> "number"
        [] typeName = "ZodBoolean" -> "boolean"
        [] typeName = "ZodDate" -> "date"
        [] typeName = "ZodEnum" -> "enum"
        [] typeName = "ZodLiteral" -> "literal"
        [] typeName = "ZodArray" ->
             IF Unwrapped(Unwrapped(node).inner[1]).typeName = "ZodObject"
             THEN "json" ELSE "array"
        [] typeName = "ZodObject" -> "object"
        [] OTHER -> "string"

ArrayLeaves ==
  {k \in 1..Len(leafNodes(schema)) : leafNodes(schema)[k].typeName = "ZodArray"}

\* C22: every array field yields exactly one entry, of kind json without an
\* item kind when its items are objects, and else of kind array with the
\* field kind of its items as item kind.
ArrayYieldsOneEntry ==
  anPc = "returned" =>
    /\ Len(positions) = Len(leafNodes(schema))
    /\ \A k \in ArrayLeaves :
         LET item == leafNodes(schema)[k].inner[1]
         IN  IF FieldKindOf(item) = "object"
             THEN /\ positions[k].type = "json"
                  /\ positions[k].arrayItemType = "undefined"
             ELSE /\ positions[k].type = "array"
                  /\ positions[k].arrayItemType = FieldKindOf(item)


-----------------------------------------------------------------------------
\* The split with a delimiter of several characters (SplitSpec).

\* The scan in which an escape character immediately followed by the whole
\* delimiter folds the delimiter into the current segment.
RECURSIVE splitEscapingWholeDelimiter(_, _, _, _, _, _)
splitEscapingWholeDelimiter(s, d, e, i, current, result) ==
  IF ~(i < Len(s)) THEN Append(result, current)
  ELSE IF <<At(s, i)>> = e /\ substring(s, i + 1, i + 1 + Len(d)) = d
       THEN splitEscapingWholeDelimiter(s, d, e, i + 1 + Len(d), current \o d, result)
  ELSE IF <<At(s, i)>> = e /\ i + 1 < Len(s) /\ <<At(s, i + 1)>> = e
       THEN splitEscapingWholeDelimiter(s, d, e, i + 2, Append(current, At(s, i + 1)), result)
  ELSE IF substring(s, i, i + Len(d)) = d
       THEN splitEscapingWholeDelimiter(s, d, e, i + Len(d), <<>>, Append(result, current))
  ELSE splitEscapingWholeDelimiter(s, d, e, i + 1, Append(current, At(s, i)), result)

HasEscape == \E i \in Indices : <<At(str, i)>> = escapeChar

\* C23: with a delimiter of several characters, a segment ends at every
\* position where the delimiter occurs as a substring, the whole delimiter
\* being consumed, and an escape character immediately followed by the
\* delimiter puts a literal delimiter into the current segment instead of
\* ending it.
MultiCharDelimiterSplit ==
  (SplitDone /\ Len(delimiter) > 1) =>
    /\ ~HasEscape => splitResult = split(str, delimiter)
    /\ splitResult =
         splitEscapingWholeDelimiter(str, delimiter, escapeChar, 0, <<>>, <<>>)


-----------------------------------------------------------------------------
\* Number coercion (parseRowRaw).

Infinity == <<"i", "n", "f", "i", "n", "i", "t", "y">>

\* The entries of kind number with a non-empty segment whose value is what
\* coercion made of it: no later entry writes on their path, and the segment
\* is not the null of a nullable entry.
NumberEntries ==
  {k \in 1..Len(positions) :
     /\ positions[k].type = "number"
     /\ RowSegments[k] # <<>>
     /\ Overwriters(k) = {}
     /\ ~(positions[k].nullable /\ IsNullToken(RowSegments[k]))}

\* The value the decoded record holds at the path of entry k.
ValueOf(k) ==
  (CHOOSE b \in parseResult.data[1] : b.parts = PathParts(k)).value

\* The special token the segment of entry k spells, letter case and
\* surrounding white space aside.
TokenOf(k) == toLowerCase(trim(RowSegments[k]))

\* C24: number coercion recognizes nan, infinity, +infinity and -infinity in
\* any letter case after trimming, as NaN, +Infinity, +Infinity and
\* -Infinity; every other segment is parsed as a number, which gives NaN when
\* the text is not one.
SpecialNumbersInAnyCase ==
  RowDecoded =>
    \A k \in NumberEntries :
      /\ ValueOf(k).t = "number"
      /\ TokenOf(k) = <<"n", "a", "n">> => ValueOf(k) = NumberValue("NaN")
      /\ TokenOf(k) \in {Infinity, <<"+">> \o Infinity} =>
           ValueOf(k) = NumberValue("Infinity")
      /\ TokenOf(k) = <<"-">> \o Infinity => ValueOf(k) = NumberValue("-Infinity")
      /\ TokenOf(k) \notin {<<"n", "a", "n">>, Infinity, <<"+">> \o Infinity,
                           <<"-">> \o Infinity} =>
           ValueOf(k) = Number(trim(RowSegments[k]))


-----------------------------------------------------------------------------
\* Array fields (parseRowRaw).

\* The entries of kind array with a non-empty segment whose value is what
\* coercion made of it.
ArrayEntries ==
  {k \in 1..Len(positions) :
     /\ positions[k].type = "array"
     /\ RowSegments[k] # <<>>
     /\ Overwriters(k) = {}
     /\ ~(positions[k].nullable /\ IsNullToken(RowSegments[k]))}

\* The indices (from 1) at which a one-character sub-delimiter occurs.
SubDelimitersIn(segment) ==
  {i \in 1..Len(segment) : <<segment[i]>> = parserConfig.subDelimiter}

\* The j-th piece of the segment: what lies between the occurrences j - 1 and
\* j of the sub-delimiter, the ends of the segment counting as occurrences.
PieceOf(segment, j) ==
  LET cuts   == SubDelimitersIn(segment)
      cut(n) == CHOOSE i \in cuts : Cardinality({c \in cuts : c < i}) = n - 1
      from   == IF j = 1 THEN 1 ELSE cut(j - 1) + 1
      to     == IF j = Cardinality(cuts) + 1 THEN Len(segment) ELSE cut(j) - 1
  IN  SubSeq(segment, from, to)

-----------------------------------------------------------------------------
\* Column checks come before validation (parsePositionalOutput).

\* C26: when any non-blank line has the wrong number of columns, in either
\* mode and on whatever line, parsePositionalOutput ends with the ParseError
\* of the first such line and the validator has not been called for any row.
ColumnChecksBeforeValidation ==
  (ParseDone /\ mode \in {"object", "array"} /\ Mismatching # {}) =>
    /\ parseResult.kind = "ParseError"
    /\ parseResult.rowIndex = FirstMismatching
    /\ validatorCalls = <<>>

\* In single mode, a line after the first has the wrong number of columns
\* and the first line, which has the right number, decodes to a record the
\* validator rejects: the call has ended with a ParseError.
LaterLineMiscountedAfterInvalidRow ==
  /\ ParseDone /\ mode = "object"
  /\ 0 \notin Mismatching /\ Mismatching # {}
  /\ ~safeParse(schema,
                At(parseRowRaw(At(Rows, 0), positions, parserConfig).data, 0))
  /\ parseResult.kind = "ParseError"

-----------------------------------------------------------------------------
\* The producers one complete call attempts (OrchSpec).

\* The producers a complete call with this request may attempt, in order:
\* the requested or else the default provider, then the fallback providers
\* other than it, those without configuration left out.
Candidates(request) ==
  LET primary == IF request.provider # "undefined" THEN request.provider
                 ELSE config.defaultProvider
      isOther(type) == type # primary
      isConfigured(type) == type \in config.providers
  IN  SelectSeq(<<primary>> \o SelectSeq(config.fallbackProviders, isOther),
                isConfigured)

Attempted(i) == [k \in 1..Len(inv[i].attempts) |-> inv[i].attempts[k].provider]

LastAttempt(i) == inv[i].attempts[Len(inv[i].attempts)]

-----------------------------------------------------------------------------
\* providers/index.ts, GoogleProvider: getClient of one provider instance,
\* called by concurrent complete calls.

NumCallers == 3

Callers == 1..NumCallers

\* this.client before the first assignment.
NoClient == 0

IdleCall == [pc |-> "idle", result |-> NoClient]

\* A provider has been created; no complete call has reached getClient.
ClientInit ==
  /\ providerName \in ProviderIds
  /\ sdkInstalled \in BOOLEAN
  /\ client = NoClient
  /\ constructed = 0
  /\ getClientCalls = [c \in Callers |-> IdleCall]
  /\ CodecIdle /\ AnIdle /\ ParseIdle /\ OrchIdle /\ PromptIdle

\* getClient up to its await: `if (this.client) return this.client`, else
\* the import of the SDK starts.
GetClient(c) ==
  /\ getClientCalls[c].pc = "idle"
  /\ getClientCalls' = [getClientCalls EXCEPT ![c] =
       IF client # NoClient THEN [pc |-> "returned", result |-> client]
       ELSE [pc |-> "importing", result |-> NoClient]]
  /\ UNCHANGED <<providerName, sdkInstalled, client, constructed>>
  /\ UNCHANGED <<codecVars, anVars, parseVars, orchVars, promptVars>>

\* The import has resolved: `this.client = new Sdk(...); return this.client`.
ImportResolved(c) ==
  /\ getClientCalls[c].pc = "importing"
  /\ sdkInstalled
  /\ constructed' = constructed + 1
  /\ client' = constructed + 1
  /\ getClientCalls' = [getClientCalls EXCEPT ![c] =
       [pc |-> "returned", result |-> constructed + 1]]
  /\ UNCHANGED <<providerName, sdkInstalled>>
  /\ UNCHANGED <<codecVars, anVars, parseVars, orchVars, promptVars>>

\* The import has failed: the catch block throws a ProviderError.
ImportRejected(c) ==
  /\ getClientCalls[c].pc = "importing"
  /\ ~sdkInstalled
  /\ getClientCalls' = [getClientCalls EXCEPT ![c] =
       [pc |-> "ProviderError", result |-> NoClient]]
  /\ UNCHANGED <<providerName, sdkInstalled, client, constructed>>
  /\ UNCHANGED <<codecVars, anVars, parseVars, orchVars, promptVars>>

ClientNext ==
  \E c \in Callers :
    \/ GetClient(c)
    \/ ImportResolved(c)
    \/ ImportRejected(c)

ClientSpec == ClientInit /\ [][ClientNext]_vars

\* C28: for one provider instance the SDK client is constructed at most
\* once, however the concurrent complete calls interleave.
ClientConstructedAtMostOnce == constructed <= 1


-----------------------------------------------------------------------------
\* prompt-builder.ts: the example rows of the system prompt.

MaxFields == 2

\* String(value) of a literal value.
String(value) ==
  CASE value.t = "string" -> value.v
    [] value.t = "boolean" ->
         IF value = BooleanValue(TRUE) THEN <<"t", "r", "u", "e">>
         ELSE <<"f", "a", "l", "s", "e">>
    [] value.t = "undefined" -> <<"u", "n", "d", "e", "f", "i", "n", "e", "d">>
    [] value.t = "null" -> <<"n", "u", "l", "l">>

ExampleText == <<"e", "x", "a", "m", "p", "l", "e", "_", "t", "e", "x", "t">>

OtherText == <<"o", "t", "h", "e", "r", "_", "t", "e", "x", "t">>

generateExampleValue(position, subDelimiter) ==
  CASE position.type = "string" -> ExampleText
    [] position.type = "number" -> <<"4", "2">>
    [] position.type = "boolean" -> <<"t", "r", "u", "e">>
    [] position.type = "date" ->
         <<"2", "0", "2", "4", "-", "0", "1", "-", "1", "5">>
    [] position.type = "enum" ->
         IF Len(position.enumValues) > 0 THEN position.enumValues[1]
         ELSE <<"v", "a", "l", "u", "e">>
    [] position.type = "literal" -> String(position.literalValue)
    [] position.type = "array" ->
         IF position.arrayItemType = "number"
         THEN <<"1">> \o subDelimiter \o <<"2">> \o subDelimiter \o <<"3">>
         ELSE <<"i", "t", "e", "m", "1">> \o subDelimiter
              \o <<"i", "t", "e", "m", "2">> \o subDelimiter
              \o <<"i", "t", "e", "m", "3">>
    [] position.type = "json" ->
         <<"[", "{", "\"", "k", "e", "y", "\"", ":", "\"", "v", "a", "l", "u",
           "e", "\"", "}", "]">>
    [] OTHER -> <<"v", "a", "l", "u", "e">>

RECURSIVE replaceAll(_, _, _)
\* s.replace(/pattern/g, replacement) for a pattern of literal characters.
replaceAll(s, pattern, replacement) ==
  IF Len(s) < Len(pattern) THEN s
  ELSE IF SubSeq(s, 1, Len(pattern)) = pattern
  THEN replacement \o replaceAll(SubSeq(s, Len(pattern) + 1, Len(s)),
                                 pattern, replacement)
  ELSE <<s[1]>> \o replaceAll(Tail(s), pattern, replacement)

\* buildSystemPrompt: the lines it puts under EXAMPLE OUTPUT; the other
\* lines of the prompt are the schema description and fixed rules.
buildSystemPrompt(ps, cfg) ==
  LET exampleValues ==
        [k \in 1..Len(ps) |-> generateExampleValue(ps[k], cfg.subDelimiter)]
      exampleRow == JoinWith(exampleValues, cfg.delimiter)
  IN  IF cfg.mode = "array"
      THEN <<exampleRow, replaceAll(exampleRow, ExampleText, OtherText)>>
      ELSE <<exampleRow>>

\* The entries analyzeSchema gives a field of each kind: the enum values a
\* z.enum lists, the value of a z.literal, the item kind of an array.
PositionInfo(type, enumValues, literalValue, arrayItemType) ==
  [type |-> type, enumValues |-> enumValues, literalValue |-> literalValue,
   arrayItemType |-> arrayItemType, optional |-> FALSE, nullable |-> FALSE]

FieldInfos ==
  { PositionInfo("string", <<>>, Undefined, "undefined"),
    PositionInfo("number", <<>>, Undefined, "undefined"),
    PositionInfo("boolean", <<>>, Undefined, "undefined"),
    PositionInfo("date", <<>>, Undefined, "undefined"),
    PositionInfo("enum", << <<"a">>, <<"b">> >>, Undefined, "undefined"),
    PositionInfo("enum", << <<"a", "|", "b">>, <<"c">> >>, Undefined, "undefined"),
    PositionInfo("literal", <<>>, StringValue(<<"o", "k">>), "undefined"),
    PositionInfo("literal", <<>>, StringValue(<<"a", ",", "b">>), "undefined"),
    PositionInfo("literal", <<>>, BooleanValue(TRUE), "undefined"),
    PositionInfo("array", <<>>, Undefined, "string"),
    PositionInfo("array", <<>>, Undefined, "number"),
    PositionInfo("json", <<>>, Undefined, "undefined") }

FieldPaths == << <<"a">>, <<"b">>, <<"c">> >>

\* The Position Lists of up to MaxFields fields: entry k has position k - 1.
PositionLists ==
  UNION { { [k \in 1..n |->
               [path |-> FieldPaths[k], position |-> k - 1,
                type |-> f[k].type, optional |-> f[k].optional,
                nullable |-> f[k].nullable, enumValues |-> f[k].enumValues,
                literalValue |-> f[k].literalValue,
                arrayItemType |-> f[k].arrayItemType]] :
            f \in [1..n -> FieldInfos] } : n \in 0..MaxFields }

PromptConfigs ==
  [delimiter : {<<"|">>, <<",">>, <<"-">>}, subDelimiter : {<<";">>, <<",">>},
   mode : {"object", "array"}]

PromptInit ==
  /\ promptPositions \in PositionLists
  /\ promptConfig \in PromptConfigs
  /\ exampleRows = NoVal
  /\ promptPc = "start"
  /\ CodecIdle /\ AnIdle /\ ParseIdle /\ OrchIdle /\ ClientIdle

BuildSystemPrompt ==
  /\ promptPc = "start"
  /\ exampleRows' = buildSystemPrompt(promptPositions, promptConfig)
  /\ promptPc' = "done"
  /\ UNCHANGED <<promptPositions, promptConfig>>
  /\ UNCHANGED <<codecVars, anVars, parseVars, orchVars, clientVars>>

PromptNext == BuildSystemPrompt

PromptSpec == PromptInit /\ [][PromptNext]_vars

\* The escape character a PositionalZod has unless the caller sets one.
DefaultEscapeChar == <<"\\">>

\* C29: every example row of the prompt, split with splitWithEscape under
\* the delimiter of the prompt and the default escape character, has as many
\* columns as the Position List has entries.
ExampleRowConforms ==
  promptPc = "done" =>
    \A r \in 1..Len(exampleRows) :
      Len(splitWithEscape(exampleRows[r], promptConfig.delimiter,
                          DefaultEscapeChar)) = Len(promptPositions)


-----------------------------------------------------------------------------
\* Rows whose fields are all absent (parsePositionalOutput).

\* z.object({a: string?}), z.object({a: string?, b: string?}),
\* z.object({a: string?, b: boolean | null}) and
\* z.object({a: z.object({b: string?, c: string?}), d: string?}).
AbsentSchemas ==
  { ZodObject(<<Field(<<"a">>, ZodOptional(ZodString))>>),
    ZodObject(<<Field(<<"a">>, ZodOptional(ZodString)),
                Field(<<"b">>, ZodOptional(ZodString))>>),
    ZodObject(<<Field(<<"a">>, ZodOptional(ZodString)),
                Field(<<"b">>, ZodNullable(ZodBoolean))>>),
    ZodObject(<<Field(<<"a">>,
                  ZodObject(<<Field(<<"b">>, ZodOptional(ZodString)),
                              Field(<<"c">>, ZodOptional(ZodString))>>)),
                Field(<<"d">>, ZodOptional(ZodString))>>) }

AbsentLines == { <<>>, <<"x">>, <<"|">>, <<"x", "|">>, <<"|", "|">> }

AbsentOutputs ==
  {JoinWith(lines, <<"\n">>) :
     lines \in UNION {[1..n -> AbsentLines] : n \in 1..MaxLines}}

\* The schema has been analyzed; the producer's text is about to be parsed.
AbsentInit ==
  /\ schema \in AbsentSchemas
  /\ positions = analyzeSchema(schema).positions
  /\ schemaError = NoError
  /\ anPc = "returned"
  /\ rawOutput \in AbsentOutputs
  /\ parserConfig \in ParserConfigs
  /\ mode \in {"object", "array"}
  /\ parseResult = NoVal
  /\ validatorCalls = <<>>
  /\ parsePc = "start"
  /\ decodeLog = <<>>
  /\ CodecIdle /\ OrchIdle /\ ClientIdle /\ PromptIdle

AbsentSpec == AbsentInit /\ [][ParseNext]_vars

OutputLines == split(rawOutput, <<"\n">>)

RECURSIVE Repeated(_, _)
Repeated(s, n) == IF n = 0 THEN <<>> ELSE s \o Repeated(s, n - 1)

\* The row in which every field is absent: one delimiter less than there
\* are entries, and nothing else.
AllAbsentRow == Repeated(parserConfig.delimiter, Len(positions) - 1)

\* The indices (from 1) of the lines that are such a row.
AllAbsentLines == {i \in 1..Len(OutputLines) : OutputLines[i] = AllAbsentRow}

\* The lines that are not blank, and those among them before line i.
NonBlank == {i \in 1..Len(OutputLines) : ~IsBlankLine(OutputLines[i])}

NonBlankBefore(i) == {j \in NonBlank : j < i}

\* The record holds undefined at the path of every entry, and nothing else.
EveryFieldAbsent(record) ==
  record = {[parts |-> PathParts(k), value |-> Undefined] :
              k \in 1..Len(positions)}

ArrayDecoded ==
  /\ ParseDone /\ mode = "array" /\ parseResult.kind = "ok"
  /\ Len(positions) >= 1

=============================================================================
